---- MODULE Spec2Model ----
(* Model of modules/parallel_agents.py: the five-agent collection pipeline,    *)
(* organize_parallel_results and its classifiers, the TTL cache with its       *)
(* in-flight marker and lock, and the two in-place cache patchers.             *)
EXTENDS Integers, Sequences, FiniteSets, TLC

VARIABLES
    world,          \* what the five backends answer: aggregates, directory, services
    cache,          \* _parallel_cache
    stamp,          \* _cache_timestamps
    active,         \* _active_requests
    lock,           \* _cache_lock: the thread holding it, 0 when free
    now,            \* time.time(), in seconds
    pc,             \* per thread: the line it is about to execute
    op,             \* per thread: the call it is executing, with its arguments
    poll,           \* per thread: i of "for i in range(30)"
    local,          \* per thread: organized_data / cache_data, cleared_count
    ret,            \* per thread: its last completed call and what it returned
    calls,          \* number of calls made so far
    published,      \* history: line 87 has run at least once
    timedOut,       \* history: some waiter has reached line 51
    patched,        \* history, per thread: the vm count its last call patched in,
                    \* and whether the patched object is still cached as patched
    atCall          \* history, per thread: whether a snapshot was cached, and fresh,
                    \* when its force_cache_refresh began, and is cached still;
                    \* whether another force_cache_refresh was under way then
                    \* (kept until the call stores a snapshot); all of it
                    \* is dropped when the call ends

vars == <<world, cache, stamp, active, lock, now, pc, op, poll, local, ret, calls,
          published, timedOut, patched, atCall>>

(***************************************************************************)
(* Strings.  TLC cannot look inside a string, so every string the regular  *)
(* expressions inspect is spelled out once as its characters.              *)
(***************************************************************************)
Chars(s) ==
  CASE s = "H100-n3" -> <<"H", "1", "0", "0", "-", "n", "3">>
     [] s = "H100-n3-spot" -> <<"H", "1", "0", "0", "-", "n", "3", "-", "s", "p", "o", "t">>
     [] s = "H100-n3-NVLink-spot" -> <<"H", "1", "0", "0", "-", "n", "3", "-", "N", "V", "L", "i", "n", "k", "-", "s", "p", "o", "t">>
     [] s = "H100-n3-NVLink" -> <<"H", "1", "0", "0", "-", "n", "3", "-", "N", "V", "L", "i", "n", "k">>
     [] s = "A100-n3-runpod" -> <<"A", "1", "0", "0", "-", "n", "3", "-", "r", "u", "n", "p", "o", "d">>
     [] s = "Contract-8xA100" -> <<"C", "o", "n", "t", "r", "a", "c", "t", "-", "8", "x", "A", "1", "0", "0">>
     [] s = "contract-acme" -> <<"c", "o", "n", "t", "r", "a", "c", "t", "-", "a", "c", "m", "e">>
     [] s = "Contract-4xB200" -> <<"C", "o", "n", "t", "r", "a", "c", "t", "-", "4", "x", "B", "2", "0", "0">>
     [] s = "Contract-A100-H100" -> <<"C", "o", "n", "t", "r", "a", "c", "t", "-", "A", "1", "0", "0", "-", "H", "1", "0", "0">>
     [] s = "Contract-8xB200-L40" -> <<"C", "o", "n", "t", "r", "a", "c", "t", "-", "8", "x", "B", "2", "0", "0", "-", "L", "4", "0">>
     [] s = "tempest" -> <<"t", "e", "m", "p", "e", "s", "t">>
     [] s = "H100-n3-tempest" -> <<"H", "1", "0", "0", "-", "n", "3", "-", "t", "e", "m", "p", "e", "s", "t">>
     [] s = "GPU-X" -> <<"G", "P", "U", "-", "X">>
     [] s = "GPU-X-spot" -> <<"G", "P", "U", "-", "X", "-", "s", "p", "o", "t">>
     [] s = "GPU-X-tempest" -> <<"G", "P", "U", "-", "X", "-", "t", "e", "m", "p", "e", "s", "t">>
     [] s = "misc" -> <<"m", "i", "s", "c">>
     [] s = "unknown" -> <<"u", "n", "k", "n", "o", "w", "n">>
     [] s = "H100" -> <<"H", "1", "0", "0">>
     [] s = "A100" -> <<"A", "1", "0", "0">>
     [] s = "RTX-A6000" -> <<"R", "T", "X", "-", "A", "6", "0", "0", "0">>
     [] s = "L40" -> <<"L", "4", "0">>
     [] s = "A4000" -> <<"A", "4", "0", "0", "0">>
     [] s = "B200" -> <<"B", "2", "0", "0">>
     [] s = "-n3" -> <<"-", "n", "3">>
     [] s = "-NVLink" -> <<"-", "N", "V", "L", "i", "n", "k">>
     [] s = "-spot" -> <<"-", "s", "p", "o", "t">>
     [] s = "-runpod" -> <<"-", "r", "u", "n", "p", "o", "d">>
     [] s = "Contract-" -> <<"C", "o", "n", "t", "r", "a", "c", "t", "-">>
     [] s = "contract-" -> <<"c", "o", "n", "t", "r", "a", "c", "t", "-">>
     [] s = "" -> <<>>

\* The strings a regular-expression group can yield as a GPU type.
TypeStrings == {"H100", "A100", "RTX-A6000", "L40", "A4000", "B200"}

StrOf(cs) == CHOOSE s \in TypeStrings : Chars(s) = cs

UpperLetters == <<"A","B","C","D","E","F","G","H","I","J","K","L","M",
                  "N","O","P","Q","R","S","T","U","V","W","X","Y","Z">>
LowerLetters == <<"a","b","c","d","e","f","g","h","i","j","k","l","m",
                  "n","o","p","q","r","s","t","u","v","w","x","y","z">>
Digits == {"0","1","2","3","4","5","6","7","8","9"}

\* str.lower(), one character
LowerChar(c) ==
    IF \E i \in 1..26 : UpperLetters[i] = c
    THEN LowerLetters[CHOOSE i \in 1..26 : UpperLetters[i] = c]
    ELSE c

Lower(cs) == [i \in 1..Len(cs) |-> LowerChar(cs[i])]

\* the character class [A-Z0-9-]
InClass(c) == (\E i \in 1..26 : UpperLetters[i] = c) \/ c \in Digits \/ c = "-"

StartsWith(cs, p) == Len(p) <= Len(cs) /\ SubSeq(cs, 1, Len(p)) = p
EndsWith(cs, p) == Len(p) <= Len(cs) /\ SubSeq(cs, Len(cs) - Len(p) + 1, Len(cs)) = p
\* Python's "p in cs" on strings
Contains(cs, p) == \E i \in 0..(Len(cs) - Len(p)) : SubSeq(cs, i + 1, i + Len(p)) = p

NoneVal == "None"

(***************************************************************************)
(* classify_aggregates_by_gpu_type                                         *)
(***************************************************************************)
\* The tails "-n3(-NVLink)?(-spot|-runpod)?$" of pattern 1, groups 2 and 3.
Pattern1Tails ==
    { [nvlink |-> nv, pool |-> pl] : nv \in {"", "-NVLink"}, pl \in {"", "-spot", "-runpod"} }

TailChars(t) == Chars("-n3") \o Chars(t.nvlink) \o Chars(t.pool)

\* re.match(r'^([A-Z0-9-]+)-n3(-NVLink)?(-spot|-runpod)?$', agg_name): the tails
\* with which the whole name matches (group 1 non-empty and inside the class).
Pattern1Matches(cs) ==
    { t \in Pattern1Tails :
        /\ EndsWith(cs, TailChars(t))
        /\ Len(cs) > Len(TailChars(t))
        /\ \A i \in 1..(Len(cs) - Len(TailChars(t))) : InClass(cs[i]) }

\* The match the greedy group 1 settles on: the longest group 1.
Pattern1Match(cs) ==
    CHOOSE t \in Pattern1Matches(cs) :
        \A u \in Pattern1Matches(cs) : Len(TailChars(u)) >= Len(TailChars(t))

Pattern1Group1(cs) == SubSeq(cs, 1, Len(cs) - Len(TailChars(Pattern1Match(cs))))

\* re.match(r'^[Cc]ontract-([^-]+)', agg_name)
ContractMatches(cs) ==
    /\ StartsWith(cs, Chars("Contract-")) \/ StartsWith(cs, Chars("contract-"))
    /\ Len(cs) > 9
    /\ cs[10] # "-"

HardwareTokens == <<"H100", "A100", "RTX-A6000", "L40", "A4000">>

\* FirstHardwareToken taking the token that occurs leftmost in the name
FirstHardwareToken_Leftmost(cs) ==
    LET at(i) == { k \in 0..(Len(cs) - Len(Chars(HardwareTokens[i]))) :
                     SubSeq(cs, k + 1, k + Len(Chars(HardwareTokens[i]))) = Chars(HardwareTokens[i]) }
        hits == { i \in 1..Len(HardwareTokens) : at(i) # {} }
        first(i) == CHOOSE k \in at(i) : \A m \in at(i) : k <= m
    IN  IF hits = {} THEN NoneVal
        ELSE HardwareTokens[CHOOSE i \in hits : \A j \in hits : first(i) <= first(j)]

\* for possible_gpu in [...]: if possible_gpu in agg_name: gpu_type = possible_gpu; break
FirstHardwareToken(cs) ==
    LET hits == { i \in 1..Len(HardwareTokens) : Contains(cs, Chars(HardwareTokens[i])) }
    IN  IF hits = {} THEN NoneVal
        ELSE HardwareTokens[CHOOSE i \in hits : \A j \in hits : i <= j]

\* end of the longest run of characters satisfying the test from position i on
RECURSIVE DigitRunEnd(_, _)
DigitRunEnd(cs, i) ==
    IF i < Len(cs) /\ cs[i + 1] \in Digits THEN DigitRunEnd(cs, i + 1) ELSE i
RECURSIVE ClassRunEnd(_, _)
ClassRunEnd(cs, i) ==
    IF i < Len(cs) /\ InClass(cs[i + 1]) THEN ClassRunEnd(cs, i + 1) ELSE i

\* re.search(r'\d+x([A-Z0-9-]+)', agg_name): start positions of a match
TimesStarts(cs) ==
    { i \in 1..Len(cs) :
        /\ cs[i] \in Digits
        /\ LET j == DigitRunEnd(cs, i)
           IN  j + 2 <= Len(cs) /\ cs[j + 1] = "x" /\ InClass(cs[j + 2]) }

\* group 1 of the leftmost match
TimesGroup1(cs) ==
    LET i == CHOOSE k \in TimesStarts(cs) : \A m \in TimesStarts(cs) : k <= m
        j == DigitRunEnd(cs, i)
    IN  SubSeq(cs, j + 2, ClassRunEnd(cs, j + 2))

DefaultContractType == "A100"

ContractGpuType(cs) ==
    IF FirstHardwareToken(cs) # NoneVal THEN FirstHardwareToken(cs)
    ELSE IF TimesStarts(cs) # {} THEN StrOf(TimesGroup1(cs))
    ELSE DefaultContractType

EmptyConfig == [ondemand_variants |-> <<>>, spot |-> NoneVal, runpod |-> NoneVal, contracts |-> <<>>]

HasType(g, ty) == \E i \in 1..Len(g) : g[i].gpu_type = ty

\* if gpu_type not in gpu_aggregates: gpu_aggregates[gpu_type] = {...}
EnsureType(g, ty) ==
    IF HasType(g, ty) THEN g ELSE Append(g, [gpu_type |-> ty, config |-> EmptyConfig])

\* ApplyPattern1 appending to ondemand_variants whatever the pool suffix
ApplyPattern1_AlwaysOndemand(g, name) ==
    LET cs == Chars(name)
        m  == Pattern1Match(cs)
        ty == StrOf(Pattern1Group1(cs))
        g1 == EnsureType(g, ty)
        g2 == [ i \in 1..Len(g1) |->
                  IF g1[i].gpu_type # ty THEN g1[i]
                  ELSE IF m.pool = "-spot" THEN [g1[i] EXCEPT !.config.spot = name]
                  ELSE IF m.pool = "-runpod" THEN [g1[i] EXCEPT !.config.runpod = name]
                  ELSE g1[i] ]
    IN  [ i \in 1..Len(g2) |->
            IF g2[i].gpu_type # ty THEN g2[i]
            ELSE [g2[i] EXCEPT !.config.ondemand_variants =
                        Append(@, [aggregate |-> name, variant |-> name])] ]

ApplyPattern1(g, name) ==
    LET cs == Chars(name)
        m  == Pattern1Match(cs)
        ty == StrOf(Pattern1Group1(cs))
        g1 == EnsureType(g, ty)
    IN  [ i \in 1..Len(g1) |->
            IF g1[i].gpu_type # ty THEN g1[i]
            ELSE IF m.pool = "-spot" THEN [g1[i] EXCEPT !.config.spot = name]
            ELSE IF m.pool = "-runpod" THEN [g1[i] EXCEPT !.config.runpod = name]
            ELSE [g1[i] EXCEPT !.config.ondemand_variants =
                        Append(@, [aggregate |-> name, variant |-> name])] ]

ApplyContract(g, name) ==
    LET ty == ContractGpuType(Chars(name))
        g1 == EnsureType(g, ty)
    IN  [ i \in 1..Len(g1) |->
            IF g1[i].gpu_type # ty THEN g1[i]
            ELSE [g1[i] EXCEPT !.config.contracts =
                        Append(@, [aggregate |-> name, name |-> name])] ]

\* one iteration of "for agg_name, agg_obj in aggregates_dict.items()"
ClassifyOne(g, name) ==
    LET g1 == IF Pattern1Matches(Chars(name)) # {} THEN ApplyPattern1(g, name) ELSE g
    IN  IF ContractMatches(Chars(name)) THEN ApplyContract(g1, name) ELSE g1

RECURSIVE ClassifyFrom(_, _, _)
ClassifyFrom(names, i, g) ==
    IF i > Len(names) THEN g ELSE ClassifyFrom(names, i + 1, ClassifyOne(g, names[i]))

\* aggregates_dict is given by its keys in insertion order; the result is the
\* dict gpu_type -> config in insertion order.
classify_aggregates_by_gpu_type(aggregates_dict) == ClassifyFrom(aggregates_dict, 1, <<>>)

(***************************************************************************)
(* The five agents.  w is the state of the backends: w.aggs the list of    *)
(* aggregates [name, hosts], w.devices the directory listing, w.disabled   *)
(* the hosts whose nova-compute service is disabled.  F is the set of      *)
(* agents that fail in this run; a failed agent yields its empty result.   *)
(***************************************************************************)
Sources == {"netbox", "aggregates", "vm_counts", "gpu_info", "compute_services"}

Hosts == {"h1", "h2"}

DictGet(d, k, default) == IF k \in DOMAIN d THEN d[k] ELSE default

RECURSIVE FlattenHosts(_)
FlattenHosts(lists) ==
    IF lists = <<>> THEN <<>> ELSE Head(lists) \o FlattenHosts(Tail(lists))

SeqRange(s) == { s[i] : i \in 1..Len(s) }

HostsOfAggs(aggs) == UNION { SeqRange(aggs[i].hosts) : i \in 1..Len(aggs) }

\* host_to_aggregate[host] = agg.name, in list order: the last aggregate wins
LastAggregateOf(aggs, h) ==
    aggs[CHOOSE i \in 1..Len(aggs) :
            /\ h \in SeqRange(aggs[i].hosts)
            /\ \A j \in 1..Len(aggs) : h \in SeqRange(aggs[j].hosts) => j <= i].name

\* device_record of netbox_agent
DeviceRecord(d) ==
    [hostname |-> d.hostname, tenant |-> d.tenant,
     owner_group |-> IF d.tenant = "Chris Starkey" THEN "Nexgen Cloud" ELSE "Investors",
     aggregate |-> d.aggregate, status |-> d.status, is_gpu_server |-> d.is_gpu_server,
     gpu_used |-> 0, vm_count |-> 0]

\* params['limit'] of line 123, 1000 in the source: the size of a full page
PageLimit == 2

\* lines 125-142: the while loop from request number page on, all_devices
\* being acc so far.  The directory holds devices; the request for page
\* failing_page (0: none) is answered with a status other than 200.
RECURSIVE FetchPages(_, _, _, _)
FetchPages(devices, failing_page, page, acc) ==
    IF page = failing_page THEN acc
    ELSE LET offset == (page - 1) * PageLimit
             last == IF offset + PageLimit <= Len(devices) THEN offset + PageLimit ELSE Len(devices)
             devices_batch == SubSeq(devices, offset + 1, last)
         IN  IF Len(devices_batch) < PageLimit THEN acc \o devices_batch
             ELSE FetchPages(devices, failing_page, page + 1, acc \o devices_batch)

\* lines 144-307 on all_devices
ProcessDevices(all_devices) ==
    LET act == { i \in 1..Len(all_devices) : all_devices[i].status = "active" }
    IN  [active_devices |->
           [ h \in { all_devices[i].hostname : i \in act } |->
               LET d == all_devices[CHOOSE i \in act : all_devices[i].hostname = h]
               IN  [tenant |-> d.tenant,
                    owner_group |-> IF d.tenant = "Chris Starkey" THEN "Nexgen Cloud" ELSE "Investors",
                    aggregate |-> d.aggregate, status |-> d.status] ],
         all_devices |-> [ i \in 1..Len(all_devices) |-> DeviceRecord(all_devices[i]) ]]

netbox_agent(w, F) ==
    IF "netbox" \in F THEN [active_devices |-> <<>>, all_devices |-> <<>>]
    ELSE ProcessDevices(FetchPages(w.devices, w.failing_page, 1, <<>>))

aggregate_agent(w, F) ==
    IF "aggregates" \in F
    THEN [host_to_aggregate |-> <<>>, aggregate_to_hosts |-> <<>>, aggregates |-> <<>>]
    ELSE [host_to_aggregate |-> [ h \in HostsOfAggs(w.aggs) |-> LastAggregateOf(w.aggs, h) ],
          aggregate_to_hosts |-> w.aggs,
          aggregates |-> [ i \in 1..Len(w.aggs) |-> w.aggs[i].name ]]

vm_count_agent(w, F) ==
    IF "vm_counts" \in F THEN <<>> ELSE [ h \in HostsOfAggs(w.aggs) |-> w.vms[h] ]

DefaultGpuInfo == [gpu_used |-> 0, gpu_capacity |-> 8]

gpu_info_agent(w, F) ==
    IF "gpu_info" \in F THEN <<>>
    ELSE [ h \in HostsOfAggs(w.aggs) |-> [gpu_used |-> w.gpus[h], gpu_capacity |-> 8] ]

compute_service_agent(w, F) ==
    IF "compute_services" \in F THEN [disabled_hosts |-> {}] ELSE [disabled_hosts |-> w.disabled]

\* CollectAll with one failing agent discarding what the others returned
CollectAll_AllOrNothing(w, F) ==
    LET G == IF F = {} THEN {} ELSE Sources
    IN  [netbox |-> netbox_agent(w, G), aggregates |-> aggregate_agent(w, G),
         vm_counts |-> vm_count_agent(w, G), gpu_info |-> gpu_info_agent(w, G),
         compute_services |-> compute_service_agent(w, G)]

\* lines 60-78: the results dict of one pipeline run
CollectAll(w, F) ==
    [netbox |-> netbox_agent(w, F), aggregates |-> aggregate_agent(w, F),
     vm_counts |-> vm_count_agent(w, F), gpu_info |-> gpu_info_agent(w, F),
     compute_services |-> compute_service_agent(w, F)]

(***************************************************************************)
(* compute_comprehensive_outofstock_devices                                *)
(***************************************************************************)
IsTempestName(name) == Contains(Lower(Chars(name)), Chars("tempest"))

Reasons == <<"netbox_non_active", "not_in_openstack", "in_tempest", "compute_disabled">>

\* the branch of lines 690-710 a GPU device takes; NoneVal: none of them
\* OutOfStockReason with the tempest test ahead of the compute service test
OutOfStockReason_TempestFirst(device, tempest_hosts, productive_openstack_hosts, disabled_hosts) ==
    IF device.status # "active" THEN "netbox_non_active"
    ELSE IF device.hostname \in tempest_hosts THEN "in_tempest"
    ELSE IF device.hostname \in disabled_hosts THEN "compute_disabled"
    ELSE IF device.hostname \notin productive_openstack_hosts THEN "not_in_openstack"
    ELSE NoneVal

\* OutOfStockReason without its last test: a device in no aggregate is in stock
OutOfStockReason_NoFourthCategory(device, tempest_hosts, productive_openstack_hosts, disabled_hosts) ==
    IF device.status # "active" THEN "netbox_non_active"
    ELSE IF device.hostname \in disabled_hosts THEN "compute_disabled"
    ELSE IF device.hostname \in tempest_hosts THEN "in_tempest"
    ELSE NoneVal

OutOfStockReason(device, tempest_hosts, productive_openstack_hosts, disabled_hosts) ==
    IF device.status # "active" THEN "netbox_non_active"
    ELSE IF device.hostname \in disabled_hosts THEN "compute_disabled"
    ELSE IF device.hostname \in tempest_hosts THEN "in_tempest"
    ELSE IF device.hostname \notin productive_openstack_hosts THEN "not_in_openstack"
    ELSE NoneVal

\* the device dict after device['outofstock_reason'] = ...; the reason text
\* is represented by the key of its category
WithReason(d, r) ==
    [hostname |-> d.hostname, tenant |-> d.tenant, owner_group |-> d.owner_group,
     aggregate |-> d.aggregate, status |-> d.status, is_gpu_server |-> d.is_gpu_server,
     gpu_used |-> d.gpu_used, vm_count |-> d.vm_count, outofstock_reason |-> r]

RECURSIVE SelectDevices(_, _, _, _, _)
SelectDevices(devs, r, th, ph, dh) ==
    IF devs = <<>> THEN <<>>
    ELSE LET d == Head(devs)
             rest == SelectDevices(Tail(devs), r, th, ph, dh)
         IN  IF d.is_gpu_server /\ OutOfStockReason(d, th, ph, dh) = r
             THEN <<WithReason(d, r)>> \o rest
             ELSE rest

compute_comprehensive_outofstock_devices(all_netbox_devices, aggregate_to_hosts, disabled_hosts) ==
    LET a2h == aggregate_to_hosts
        tempest_aggregates == { i \in 1..Len(a2h) : IsTempestName(a2h[i].name) }
        productive_aggregates == { i \in 1..Len(a2h) : ~IsTempestName(a2h[i].name) }
        tempest_hosts == UNION { SeqRange(a2h[i].hosts) : i \in tempest_aggregates }
        productive_openstack_hosts == UNION { SeqRange(a2h[i].hosts) : i \in productive_aggregates }
        cats == [ k \in 1..Len(Reasons) |->
                    SelectDevices(all_netbox_devices, Reasons[k], tempest_hosts,
                                  productive_openstack_hosts, disabled_hosts) ]
        all_outofstock == FlattenHosts(cats)
    IN  [hosts |-> all_outofstock,
         device_count |-> Len(all_outofstock),
         categories |-> [ r \in SeqRange(Reasons) |->
                            LET k == CHOOSE k \in 1..Len(Reasons) : Reasons[k] = r
                            IN  [ i \in 1..Len(cats[k]) |-> cats[k][i].hostname ] ],
         category_counts |-> [ r \in SeqRange(Reasons) |->
                            Len(cats[CHOOSE k \in 1..Len(Reasons) : Reasons[k] = r]) ]]

(***************************************************************************)
(* organize_parallel_results                                               *)
(***************************************************************************)
\* aggregate_to_hosts.get(name, [])
HostsOfAggregate(a2h, name) ==
    IF \E i \in 1..Len(a2h) : a2h[i].name = name
    THEN a2h[CHOOSE i \in 1..Len(a2h) : a2h[i].name = name].hosts
    ELSE <<>>

\* lines 549-571: runpod, ondemand variants, spot, contracts, in that order
BucketHostnames(config, a2h) ==
    (IF config.runpod # NoneVal THEN HostsOfAggregate(a2h, config.runpod) ELSE <<>>)
    \o FlattenHosts([ i \in 1..Len(config.ondemand_variants) |->
                        HostsOfAggregate(a2h, config.ondemand_variants[i].aggregate) ])
    \o (IF config.spot # NoneVal THEN HostsOfAggregate(a2h, config.spot) ELSE <<>>)
    \o FlattenHosts([ i \in 1..Len(config.contracts) |->
                        HostsOfAggregate(a2h, config.contracts[i].aggregate) ])

DefaultTenantInfo == [tenant |-> "Unknown", owner_group |-> "Investors"]

\* lines 576-590
HostDetail(hostname, results) ==
    [hostname |-> hostname,
     aggregate |-> DictGet(results.aggregates.host_to_aggregate, hostname, NoneVal),
     tenant_info |-> IF hostname \in DOMAIN results.netbox.active_devices
                     THEN [tenant |-> results.netbox.active_devices[hostname].tenant,
                           owner_group |-> results.netbox.active_devices[hostname].owner_group]
                     ELSE DefaultTenantInfo,
     vm_count |-> DictGet(results.vm_counts, hostname, 0),
     gpu_info |-> DictGet(results.gpu_info, hostname, DefaultGpuInfo)]

\* validate_inventory_accountability: (is_valid, netbox_total, ui_total)
RECURSIVE SumTotals(_)
SumTotals(buckets) ==
    IF buckets = <<>> THEN 0 ELSE Head(buckets).total_hosts + SumTotals(Tail(buckets))

\* validate_inventory_accountability leaving the out-of-stock entry out of ui_total
validate_inventory_accountability_BucketsOnly(organized, all_netbox_devices) ==
    LET netbox_total ==
            Cardinality({ i \in 1..Len(all_netbox_devices) : all_netbox_devices[i].is_gpu_server })
        ui_total == SumTotals(organized.buckets)
    IN  [is_valid |-> (netbox_total = ui_total), netbox_total |-> netbox_total, ui_total |-> ui_total]

validate_inventory_accountability(organized, all_netbox_devices) ==
    LET netbox_total ==
            Cardinality({ i \in 1..Len(all_netbox_devices) : all_netbox_devices[i].is_gpu_server })
        ui_total == SumTotals(organized.buckets) + organized.outofstock.device_count
    IN  [is_valid |-> (netbox_total = ui_total), netbox_total |-> netbox_total, ui_total |-> ui_total]

\* organize_parallel_results returning nothing but an empty out-of-stock entry
\* when the validation finds a mismatch
organize_parallel_results_Gated(results) ==
    LET a2h == results.aggregates.aggregate_to_hosts
        gpu_aggregates == classify_aggregates_by_gpu_type(results.aggregates.aggregates)
        buckets == [ i \in 1..Len(gpu_aggregates) |->
                       LET all_hosts == BucketHostnames(gpu_aggregates[i].config, a2h)
                           host_details == [ k \in 1..Len(all_hosts) |-> HostDetail(all_hosts[k], results) ]
                       IN  [gpu_type |-> gpu_aggregates[i].gpu_type,
                            config |-> gpu_aggregates[i].config,
                            hosts |-> host_details,
                            total_hosts |-> Len(host_details)] ]
        organized == [buckets |-> buckets,
                      outofstock |-> compute_comprehensive_outofstock_devices(
                                         results.netbox.all_devices, a2h,
                                         results.compute_services.disabled_hosts)]
        validation == validate_inventory_accountability(organized, results.netbox.all_devices)
    IN  IF validation.is_valid THEN organized
        ELSE [buckets |-> <<>>,
              outofstock |-> compute_comprehensive_outofstock_devices(<<>>, <<>>, {})]

\* The snapshot: the resource-type entries of "organized" in insertion order
\* (buckets) and its 'outofstock' entry, which is inserted last.
organize_parallel_results(results) ==
    LET a2h == results.aggregates.aggregate_to_hosts
        gpu_aggregates == classify_aggregates_by_gpu_type(results.aggregates.aggregates)
        buckets == [ i \in 1..Len(gpu_aggregates) |->
                       LET all_hosts == BucketHostnames(gpu_aggregates[i].config, a2h)
                           host_details == [ k \in 1..Len(all_hosts) |-> HostDetail(all_hosts[k], results) ]
                       IN  [gpu_type |-> gpu_aggregates[i].gpu_type,
                            config |-> gpu_aggregates[i].config,
                            hosts |-> host_details,
                            total_hosts |-> Len(host_details)] ]
    \* line 634 calls validate_inventory_accountability(organized, ...) and
    \* drops what it returns; line 639 returns organized
    IN  [buckets |-> buckets,
         outofstock |-> compute_comprehensive_outofstock_devices(
                            results.netbox.all_devices, a2h,
                            results.compute_services.disabled_hosts)]

(***************************************************************************)
(* The patchers, as functions of the cached snapshot.  Both iterate over   *)
(* cache_data.items(): the resource-type entries, then 'outofstock'; every *)
(* entry has a 'hosts' list, only the resource-type entries 'total_hosts'. *)
(***************************************************************************)
NumEntries(snap) == Len(snap.buckets) + 1

EntryHosts(snap, k) ==
    IF k <= Len(snap.buckets) THEN snap.buckets[k].hosts ELSE snap.outofstock.hosts

\* gpu_data['hosts'] replaced by hosts, gpu_data['total_hosts'] += delta if present
SetEntry(snap, k, hosts, delta) ==
    IF k <= Len(snap.buckets)
    THEN [snap EXCEPT !.buckets[k].hosts = hosts, !.buckets[k].total_hosts = @ + delta]
    ELSE [snap EXCEPT !.outofstock.hosts = hosts]

RemoveAt(s, i) == SubSeq(s, 1, i - 1) \o SubSeq(s, i + 1, Len(s))

\* SetVmCount writing the count to every record of a list that holds hostname
SetVmCount_WholeList(hosts, hostname, new_vm_count) ==
    IF \E i \in 1..Len(hosts) : hosts[i].hostname = hostname
    THEN [ i \in 1..Len(hosts) |-> [hosts[i] EXCEPT !.vm_count = new_vm_count] ]
    ELSE hosts

\* lines 974-981
SetVmCount(hosts, hostname, new_vm_count) ==
    [ i \in 1..Len(hosts) |->
        IF hosts[i].hostname = hostname THEN [hosts[i] EXCEPT !.vm_count = new_vm_count]
        ELSE hosts[i] ]

RECURSIVE UpdatedCount(_, _, _)
UpdatedCount(snap, k, hostname) ==
    IF k > NumEntries(snap) THEN 0
    ELSE Cardinality({ i \in 1..Len(EntryHosts(snap, k)) : EntryHosts(snap, k)[i].hostname = hostname })
         + UpdatedCount(snap, k + 1, hostname)

\* update_host_vm_count_in_cache returning True whatever updated_count is
update_host_vm_count_AlwaysTrue(cache_data, hostname, new_vm_count) ==
    [data |-> [cache_data EXCEPT
                 !.buckets = [ k \in 1..Len(cache_data.buckets) |->
                                 [cache_data.buckets[k] EXCEPT
                                    !.hosts = SetVmCount(@, hostname, new_vm_count)] ],
                 !.outofstock.hosts = SetVmCount(@, hostname, new_vm_count)],
     ret |-> TRUE]

\* update_host_vm_count_in_cache counting the records but writing old_count back
update_host_vm_count_KeepsOld(cache_data, hostname, new_vm_count) ==
    [data |-> cache_data,
     ret |-> (UpdatedCount(cache_data, 1, hostname) > 0)]

\* update_host_vm_count_in_cache, lines 970-988, on cache_data
update_host_vm_count_in_cache(cache_data, hostname, new_vm_count) ==
    [data |-> [cache_data EXCEPT
                 !.buckets = [ k \in 1..Len(cache_data.buckets) |->
                                 [cache_data.buckets[k] EXCEPT
                                    !.hosts = SetVmCount(@, hostname, new_vm_count)] ],
                 !.outofstock.hosts = SetVmCount(@, hostname, new_vm_count)],
     ret |-> (UpdatedCount(cache_data, 1, hostname) > 0)]

\* positions in a host list of the record the removal loop looks for
MatchesAt(hosts, hostname, old_aggregate) ==
    { i \in 1..Len(hosts) : hosts[i].hostname = hostname /\ hosts[i].aggregate = old_aggregate }

\* lines 1006-1015 from entry k on: st.data is cache_data so far, st.moved the
\* value of host_data_to_move, which is None while st.found is FALSE
RECURSIVE RemoveFrom(_, _, _, _, _)
RemoveFrom(st, k, hostname, old_aggregate, new_aggregate) ==
    IF k > NumEntries(st.data) THEN st
    ELSE LET hosts == EntryHosts(st.data, k)
             hits == MatchesAt(hosts, hostname, old_aggregate)
         IN  IF hits = {} THEN RemoveFrom(st, k + 1, hostname, old_aggregate, new_aggregate)
             ELSE LET i == CHOOSE i \in hits : \A j \in hits : i <= j
                  IN  RemoveFrom([data |-> SetEntry(st.data, k, RemoveAt(hosts, i), -1),
                                  found |-> TRUE,
                                  moved |-> [hosts[i] EXCEPT !.aggregate = new_aggregate]],
                                 k + 1, hostname, old_aggregate, new_aggregate)

\* lines 1022-1031: the first entry holding a host whose aggregate is new_aggregate
DestinationEntries(snap, new_aggregate) ==
    { k \in 1..NumEntries(snap) :
        \E i \in 1..Len(EntryHosts(snap, k)) : EntryHosts(snap, k)[i].aggregate = new_aggregate }

\* update_host_aggregate_in_cache, lines 1002-1034, on cache_data
update_host_aggregate_in_cache(cache_data, hostname, old_aggregate, new_aggregate) ==
    LET st == RemoveFrom([data |-> cache_data, found |-> FALSE, moved |-> NoneVal], 1,
                         hostname, old_aggregate, new_aggregate)
        dest == DestinationEntries(st.data, new_aggregate)
    IN  IF ~st.found THEN [data |-> cache_data, ret |-> FALSE]
        ELSE IF dest = {} THEN [data |-> st.data, ret |-> FALSE]
        ELSE LET k == CHOOSE k \in dest : \A j \in dest : k <= j
             IN  [data |-> SetEntry(st.data, k, Append(EntryHosts(st.data, k), st.moved), 1),
                  ret |-> TRUE]

(***************************************************************************)
(* The cache protocol.  _parallel_cache, _cache_timestamps and             *)
(* _active_requests only ever hold the key "all_parallel_data": each is a  *)
(* sequence that is empty or holds the one value.  A cached value is a     *)
(* dict object: id is its identity, data its content.                      *)
(***************************************************************************)
PARALLEL_CACHE_TTL == 600
WaitPolls == 30
SleepSeconds == 1

NumThreads == 2
MaxCalls == 3
MaxTime == 600
MaxVm == 1

Threads == 1..NumThreads

IdleOp == [name |-> "idle", hostname |-> "", n |-> 0, old |-> "", new |-> ""]
GetOp == [IdleOp EXCEPT !.name = "get"]
ForceOp == [IdleOp EXCEPT !.name = "force"]
ClearOp == [IdleOp EXCEPT !.name = "clear"]
PatchVmOp(h, n) == [IdleOp EXCEPT !.name = "patch_vm", !.hostname = h, !.n = n]
PatchMigOp(h, a, b) == [IdleOp EXCEPT !.name = "patch_mig", !.hostname = h, !.old = a, !.new = b]

NoRet == [op |-> IdleOp, kind |-> "none", at |-> "none", flag |-> FALSE, count |-> 0,
          snap |-> <<>>, failed |-> {}]

\* both keys present (lines 25, 34, 46)
BothPresent == cache # <<>> /\ stamp # <<>>
\* age < PARALLEL_CACHE_TTL (lines 26-27, 35-36, 47-48)
\* IsFresh with the boundary age counted as fresh
IsFresh_Inclusive(ts, t) == t - ts <= PARALLEL_CACHE_TTL

IsFresh(ts, t) == t - ts < PARALLEL_CACHE_TTL
Fresh == BothPresent /\ IsFresh(stamp[1], now)

\* identity of a newly created dict: one no live reference carries
UsedIds == { cache[i].id : i \in 1..Len(cache) }
           \cup UNION { { local[t].ref[i].id : i \in 1..Len(local[t].ref) } : t \in Threads }
NewId == CHOOSE n \in 0..(NumThreads + 1) : n \notin UsedIds /\ \A m \in 0..(n - 1) : m \in UsedIds

Goto(t, l) == pc' = [pc EXCEPT ![t] = l]

\* the call of thread t ends: value v of the given kind, from the return at line l
Return(t, kind, l, flag, count, snap, F) ==
    /\ pc' = [pc EXCEPT ![t] = "idle"]
    /\ ret' = [ret EXCEPT ![t] = [op |-> op[t], kind |-> kind, at |-> l, flag |-> flag,
                                   count |-> count, snap |-> snap, failed |-> F]]
    /\ op' = [op EXCEPT ![t] = IdleOp]
    /\ poll' = [poll EXCEPT ![t] = 0]

NoLocal == [ref |-> <<>>, failed |-> {}, cleared_count |-> 0]

\* what atCall holds outside a force_cache_refresh
NotHeld == [held |-> FALSE, fresh |-> FALSE, overlap |-> FALSE]
\* the snapshot cached when a call began is cached no longer
Replaced == [ u \in Threads |-> [atCall[u] EXCEPT !.held = FALSE] ]

\* the call's frame is dropped; no other frame changes
DropFrame(t) == local' = [local EXCEPT ![t] = NoLocal]

\* a KeyError leaves the call (and releases the lock if the "with" held it)
Raise(t, l) ==
    /\ Return(t, "KeyError", l, FALSE, 0, <<>>, {})
    /\ DropFrame(t)
    /\ lock' = IF lock = t THEN 0 ELSE lock
    /\ atCall' = [atCall EXCEPT ![t] = NotHeld]
    /\ UNCHANGED <<world, cache, stamp, active, now, calls, published, timedOut, patched>>

\* the cached object is replaced, removed or patched again: what the threads
\* patched into it is no longer what the cache holds
Disturbed ==
    [ u \in Threads |->
        IF patched[u] = <<>> THEN <<>> ELSE <<[patched[u][1] EXCEPT !.intact = FALSE]>> ]

\* the dict object id is mutated to data: every reference to it sees that
WriteCache(id, data) ==
    IF cache # <<>> /\ cache[1].id = id THEN <<[id |-> id, data |-> data]>> ELSE cache
WriteFrames(id, data) ==
    [ u \in Threads |->
        IF local[u].ref # <<>> /\ local[u].ref[1].id = id
        THEN [local[u] EXCEPT !.ref = <<[id |-> id, data |-> data]>>]
        ELSE local[u] ]

(***************************************************************************)
(* get_all_data_parallel, one action per statement that reads or writes    *)
(* shared state.                                                           *)
(***************************************************************************)
Step(t, l) ==
    /\ Goto(t, l)
    /\ UNCHANGED <<world, cache, stamp, active, lock, now, op, poll, local, ret, calls,
                   published, timedOut, patched, atCall>>

ReturnSnapshot(t, l) ==
    /\ Return(t, "snapshot", l, FALSE, 0, <<cache[1].data>>, {})
    /\ DropFrame(t)
    /\ lock' = IF lock = t THEN 0 ELSE lock
    /\ atCall' = [atCall EXCEPT ![t] = NotHeld]
    /\ UNCHANGED <<world, cache, stamp, active, now, calls, published, timedOut, patched>>

\* line 25: if cache_key in _parallel_cache and cache_key in _cache_timestamps
get_L25(t) ==
    /\ pc[t] = "L25"
    /\ IF BothPresent THEN Step(t, "L26") ELSE Step(t, "L32")

\* lines 26-27: age = time.time() - _cache_timestamps[cache_key]; if age < TTL
get_L26(t) ==
    /\ pc[t] = "L26"
    /\ IF stamp = <<>> THEN Raise(t, "L26")
       ELSE IF IsFresh(stamp[1], now) THEN Step(t, "L29") ELSE Step(t, "L32")

\* line 29: return _parallel_cache[cache_key]
get_L29(t) ==
    /\ pc[t] = "L29"
    /\ IF cache = <<>> THEN Raise(t, "L29") ELSE ReturnSnapshot(t, "L29")

\* line 32: with _cache_lock
get_L32(t) ==
    /\ pc[t] = "L32"
    /\ lock = 0
    /\ lock' = t
    /\ Goto(t, "L34")
    /\ UNCHANGED <<world, cache, stamp, active, now, op, poll, local, ret, calls,
                   published, timedOut, patched, atCall>>

\* line 34
get_L34(t) ==
    /\ pc[t] = "L34"
    /\ IF BothPresent THEN Step(t, "L35") ELSE Step(t, "L41")

\* lines 35-36
get_L35(t) ==
    /\ pc[t] = "L35"
    /\ IF stamp = <<>> THEN Raise(t, "L35")
       ELSE IF IsFresh(stamp[1], now) THEN Step(t, "L38") ELSE Step(t, "L41")

\* line 38
get_L38(t) ==
    /\ pc[t] = "L38"
    /\ IF cache = <<>> THEN Raise(t, "L38") ELSE ReturnSnapshot(t, "L38")

\* MarkActive with the pipeline inside the "with" block of line 32
MarkActive_KeepsLock(t) ==
    /\ active' = <<t>>
    /\ lock' = lock
    /\ Goto(t, "L61")
    /\ poll' = [poll EXCEPT ![t] = 0]

\* lines 41 and 54 with no marker found: mark the request, leave the "with"
MarkActive(t) ==
    /\ active' = <<t>>
    /\ lock' = 0
    /\ Goto(t, "L61")
    /\ poll' = [poll EXCEPT ![t] = 0]

\* get_L41 without the test of the in-flight marker
get_L41_NoWait(t) ==
    /\ pc[t] = "L41"
    /\ MarkActive(t)
    /\ UNCHANGED <<world, cache, stamp, now, op, local, ret, calls, published, timedOut, patched, atCall>>

\* line 41: if cache_key in _active_requests
get_L41(t) ==
    /\ pc[t] = "L41"
    /\ IF active # <<>>
       THEN /\ Goto(t, "L45")
            /\ poll' = [poll EXCEPT ![t] = 0]
            /\ UNCHANGED <<active, lock>>
       ELSE MarkActive(t)
    /\ UNCHANGED <<world, cache, stamp, now, op, local, ret, calls, published, timedOut, patched, atCall>>

\* NextPoll giving up after the first poll
NextPoll_GivesUpAtOnce(t) ==
    /\ poll' = [poll EXCEPT ![t] = @ + 1]
    /\ Goto(t, "L51")
    /\ UNCHANGED <<world, cache, stamp, active, lock, op, local, ret, calls,
                   published, timedOut, patched, atCall>>

\* the loop body ends without a return: next i, or line 51 after the last
NextPoll(t) ==
    /\ poll' = [poll EXCEPT ![t] = @ + 1]
    /\ Goto(t, IF poll[t] + 1 < WaitPolls THEN "L45" ELSE "L51")
    /\ UNCHANGED <<world, cache, stamp, active, lock, op, local, ret, calls,
                   published, timedOut, patched, atCall>>

\* lines 45-46: time.sleep(1), then the presence test
get_L45(t) ==
    /\ pc[t] = "L45"
    /\ now' = now + SleepSeconds
    /\ IF BothPresent
       THEN /\ Goto(t, "L47")
            /\ UNCHANGED <<world, cache, stamp, active, lock, op, poll, local, ret, calls,
                           published, timedOut, patched, atCall>>
       ELSE NextPoll(t)

\* lines 47-48
get_L47(t) ==
    /\ pc[t] = "L47"
    /\ IF stamp = <<>> THEN Raise(t, "L47")
       ELSE IF IsFresh(stamp[1], now) THEN Step(t, "L50") ELSE NextPoll(t) /\ UNCHANGED now

\* line 50
get_L50(t) ==
    /\ pc[t] = "L50"
    /\ IF cache = <<>> THEN Raise(t, "L50") ELSE ReturnSnapshot(t, "L50")

\* lines 51 and 54: the wait timed out, proceed with an own request
get_L51(t) ==
    /\ pc[t] = "L51"
    /\ MarkActive(t)
    /\ timedOut' = TRUE
    /\ UNCHANGED <<world, cache, stamp, now, op, local, ret, calls, published, patched, atCall>>

\* the pipeline runs with every agent succeeding, or with every agent failing
FailChoices == {{}, Sources}

\* lines 57-84: the agents run (those in F fail) and the results are organized
get_L61(t) ==
    /\ pc[t] = "L61"
    /\ \E F \in FailChoices :
         local' = [local EXCEPT ![t] =
                     [ref |-> <<[id |-> NewId, data |-> organize_parallel_results(CollectAll(world, F))]>>,
                      failed |-> F, cleared_count |-> 0]]
    /\ Goto(t, "L87")
    /\ UNCHANGED <<world, cache, stamp, active, lock, now, op, poll, ret, calls,
                   published, timedOut, patched, atCall>>

\* get_L87 carrying the records of the cached snapshot over into the new one
get_L87_KeepsCached(t) ==
    /\ pc[t] = "L87"
    /\ cache' = IF cache = <<>> THEN local[t].ref
                ELSE <<[id |-> local[t].ref[1].id, data |-> cache[1].data]>>
    /\ published' = TRUE
    /\ patched' = Disturbed
    /\ atCall' = [Replaced EXCEPT ![t].overlap = FALSE]
    /\ Goto(t, "L88")
    /\ UNCHANGED <<world, stamp, active, lock, now, op, poll, local, ret, calls, timedOut>>

\* line 87: _parallel_cache[cache_key] = organized_data
get_L87(t) ==
    /\ pc[t] = "L87"
    /\ cache' = local[t].ref
    /\ published' = TRUE
    /\ patched' = Disturbed
    /\ atCall' = [Replaced EXCEPT ![t].overlap = FALSE]
    /\ Goto(t, "L88")
    /\ UNCHANGED <<world, stamp, active, lock, now, op, poll, local, ret, calls, timedOut>>

\* line 88: _cache_timestamps[cache_key] = time.time()
get_L88(t) ==
    /\ pc[t] = "L88"
    /\ stamp' = <<now>>
    /\ Goto(t, "L94")
    /\ UNCHANGED <<world, cache, active, lock, now, op, poll, local, ret, calls,
                   published, timedOut, patched, atCall>>

\* lines 90-95: finally, under the lock, _active_requests.pop(cache_key, None);
\* then the call returns organized_data
get_L94(t) ==
    /\ pc[t] = "L94"
    /\ lock = 0
    /\ active' = <<>>
    /\ Return(t, "snapshot", "L90", FALSE, 0, <<local[t].ref[1].data>>, local[t].failed)
    /\ DropFrame(t)
    /\ atCall' = [atCall EXCEPT ![t] = NotHeld]
    /\ UNCHANGED <<world, cache, stamp, lock, now, calls, published, timedOut, patched>>

(***************************************************************************)
(* clear_parallel_cache (and force_cache_refresh, which calls it and then  *)
(* get_all_data_parallel)                                                  *)
(***************************************************************************)
\* clear_L936 with the count taken after the dicts are emptied
clear_L936_CountsAfter(t) ==
    /\ pc[t] = "L936"
    /\ local' = [local EXCEPT ![t].cleared_count = 0]
    /\ Goto(t, "L937")
    /\ UNCHANGED <<world, cache, stamp, active, lock, now, op, poll, ret, calls,
                   published, timedOut, patched, atCall>>

\* line 936: cleared_count = len(_parallel_cache)
clear_L936(t) ==
    /\ pc[t] = "L936"
    /\ local' = [local EXCEPT ![t].cleared_count = Len(cache)]
    /\ Goto(t, "L937")
    /\ UNCHANGED <<world, cache, stamp, active, lock, now, op, poll, ret, calls,
                   published, timedOut, patched, atCall>>

\* line 937: _parallel_cache.clear()
clear_L937(t) ==
    /\ pc[t] = "L937"
    /\ cache' = <<>>
    /\ patched' = Disturbed
    /\ atCall' = Replaced
    /\ Goto(t, "L938")
    /\ UNCHANGED <<world, stamp, active, lock, now, op, poll, local, ret, calls,
                   published, timedOut>>

\* lines 938-940: _cache_timestamps.clear(); return cleared_count.
\* force_cache_refresh goes on to line 946, get_all_data_parallel()
clear_L938(t) ==
    /\ pc[t] = "L938"
    /\ stamp' = <<>>
    /\ IF op[t].name = "force"
       THEN /\ Goto(t, "L25")
            /\ local' = [local EXCEPT ![t] = NoLocal]
            /\ UNCHANGED <<ret, op, poll>>
       ELSE /\ Return(t, "count", "L940", FALSE, local[t].cleared_count, <<>>, {})
            /\ DropFrame(t)
    /\ patched' = Disturbed
    /\ UNCHANGED <<world, cache, active, lock, now, calls, published, timedOut, atCall>>

(***************************************************************************)
(* update_host_vm_count_in_cache and update_host_aggregate_in_cache        *)
(***************************************************************************)
\* lines 965 and 997: with _cache_lock
patch_lock(t) ==
    /\ pc[t] \in {"L965", "L997"}
    /\ lock = 0
    /\ lock' = t
    /\ Goto(t, IF pc[t] = "L965" THEN "L966" ELSE "L998")
    /\ UNCHANGED <<world, cache, stamp, active, now, op, poll, local, ret, calls,
                   published, timedOut, patched, atCall>>

ReturnBool(t, l, flag) ==
    /\ Return(t, "bool", l, flag, 0, <<>>, {})
    /\ lock' = 0

\* lines 966-968 and 998-1000: if cache_key not in _parallel_cache: return False
patch_check(t) ==
    /\ pc[t] \in {"L966", "L998"}
    /\ IF cache = <<>>
       THEN /\ ReturnBool(t, IF pc[t] = "L966" THEN "L968" ELSE "L1000", FALSE)
            /\ DropFrame(t)
            /\ patched' = [patched EXCEPT ![t] = <<>>]
            /\ UNCHANGED <<world, cache, stamp, active, now, calls, published, timedOut, atCall>>
       ELSE Step(t, IF pc[t] = "L966" THEN "L970" ELSE "L1002")

\* lines 970 and 1002: cache_data = _parallel_cache[cache_key]
patch_read(t) ==
    /\ pc[t] \in {"L970", "L1002"}
    /\ IF cache = <<>> THEN Raise(t, pc[t])
       ELSE /\ local' = [local EXCEPT ![t].ref = cache]
            /\ Goto(t, IF pc[t] = "L970" THEN "L974" ELSE "L1006")
            /\ UNCHANGED <<world, cache, stamp, active, lock, now, op, poll, ret, calls,
                           published, timedOut, patched, atCall>>

\* patch_vm_L974 that also renews the timestamp of the snapshot
patch_vm_L974_Restamps(t) ==
    /\ pc[t] = "L974"
    /\ LET obj == local[t].ref[1]
           r == update_host_vm_count_in_cache(obj.data, op[t].hostname, op[t].n)
           hit == cache # <<>> /\ cache[1].id = obj.id
       IN  /\ cache' = WriteCache(obj.id, r.data)
           /\ local' = [WriteFrames(obj.id, r.data) EXCEPT ![t] = NoLocal]
           /\ ReturnBool(t, IF r.ret THEN "L985" ELSE "L988", r.ret)
           /\ patched' = [ u \in Threads |->
                            IF u = t
                            THEN IF r.ret
                                 THEN <<[hostname |-> op[t].hostname, n |-> op[t].n, intact |-> hit]>>
                                 ELSE <<>>
                            ELSE IF hit /\ patched[u] # <<>>
                                        /\ patched[u][1].hostname = op[t].hostname
                                 THEN Disturbed[u]
                                 ELSE patched[u] ]
    /\ stamp' = <<now>>
    /\ UNCHANGED <<world, active, now, calls, published, timedOut, atCall>>

\* lines 974-988 on the dict object cache_data refers to
patch_vm_L974(t) ==
    /\ pc[t] = "L974"
    /\ LET obj == local[t].ref[1]
           r == update_host_vm_count_in_cache(obj.data, op[t].hostname, op[t].n)
           hit == cache # <<>> /\ cache[1].id = obj.id
       IN  /\ cache' = WriteCache(obj.id, r.data)
           /\ local' = [WriteFrames(obj.id, r.data) EXCEPT ![t] = NoLocal]
           /\ ReturnBool(t, IF r.ret THEN "L985" ELSE "L988", r.ret)
           /\ patched' = [ u \in Threads |->
                            IF u = t
                            THEN IF r.ret
                                 THEN <<[hostname |-> op[t].hostname, n |-> op[t].n, intact |-> hit]>>
                                 ELSE <<>>
                            ELSE IF hit /\ patched[u] # <<>>
                                        /\ patched[u][1].hostname = op[t].hostname
                                 THEN Disturbed[u]
                                 ELSE patched[u] ]
    /\ UNCHANGED <<world, stamp, active, now, calls, published, timedOut, atCall>>

\* lines 1003-1034 on the dict object cache_data refers to
patch_mig_L1006(t) ==
    /\ pc[t] = "L1006"
    /\ LET obj == local[t].ref[1]
           r == update_host_aggregate_in_cache(obj.data, op[t].hostname, op[t].old, op[t].new)
           hit == cache # <<>> /\ cache[1].id = obj.id
       IN  /\ cache' = WriteCache(obj.id, r.data)
           /\ local' = [WriteFrames(obj.id, r.data) EXCEPT ![t] = NoLocal]
           /\ ReturnBool(t, IF r.ret THEN "L1031"
                            ELSE IF r.data = obj.data THEN "L1019" ELSE "L1034", r.ret)
           /\ patched' = [ u \in Threads |->
                            IF u = t THEN <<>>
                            ELSE IF hit /\ r.data # obj.data THEN Disturbed[u]
                            ELSE patched[u] ]
    /\ UNCHANGED <<world, stamp, active, now, calls, published, timedOut, atCall>>

(***************************************************************************)
(* The callers and the clock                                               *)
(***************************************************************************)
\* the hostnames and aggregate names a patch call may name
PatchHosts == Hosts \cup {"h9"}

\* FirstLine with force_cache_refresh going straight to get_all_data_parallel
FirstLine_ForceSkipsClear(o) ==
    CASE o.name \in {"get", "force"} -> "L25"
      [] o.name = "clear" -> "L936"
      [] o.name = "patch_vm" -> "L965"
      [] o.name = "patch_mig" -> "L997"

FirstLine(o) ==
    CASE o.name = "get" -> "L25"
      [] o.name \in {"clear", "force"} -> "L936"
      [] o.name = "patch_vm" -> "L965"
      [] o.name = "patch_mig" -> "L997"

\* the calls the threads of the cache protocol make
ProtocolOps ==
    {GetOp, ForceOp, ClearOp}
    \cup { PatchVmOp("h1", n) : n \in 1..MaxVm }
    \cup { PatchMigOp("h1", "H100-n3", b) : b \in {"H100-n3-spot", "misc"} }

Call(t, o) ==
    /\ pc[t] = "idle"
    /\ calls < MaxCalls
    /\ calls' = calls + 1
    /\ op' = [op EXCEPT ![t] = o]
    /\ ret' = [ret EXCEPT ![t] = NoRet]
    /\ patched' = [patched EXCEPT ![t] = IF ret[t].op.name = "patch_vm" /\ ret[t].flag THEN @ ELSE <<>>]
    /\ atCall' = [atCall EXCEPT ![t] = IF o.name = "force"
                                        THEN [held |-> cache # <<>>, fresh |-> Fresh,
                                              overlap |-> \E u \in Threads \ {t} :
                                                              op[u].name = "force"]
                                        ELSE NotHeld]
    /\ Goto(t, FirstLine(o))
    /\ UNCHANGED <<world, cache, stamp, active, lock, now, poll, local,
                   published, timedOut>>

\* time passes: one TTL at once
Tick ==
    /\ now + PARALLEL_CACHE_TTL <= MaxTime
    /\ now' = now + PARALLEL_CACHE_TTL
    /\ UNCHANGED <<world, cache, stamp, active, lock, pc, op, poll, local, ret, calls,
                   published, timedOut, patched, atCall>>

Device(h, st, g) ==
    [hostname |-> h, tenant |-> "Acme", aggregate |-> "unknown", status |-> st, is_gpu_server |-> g]

\* the backends of the cache protocol: two aggregates of one type, two devices
ProtocolWorld ==
    [aggs |-> << [name |-> "H100-n3", hosts |-> <<"h1">>],
                 [name |-> "H100-n3-spot", hosts |-> <<"h2">>] >>,
     devices |-> << Device("h1", "active", TRUE), Device("h2", "active", TRUE) >>,
     disabled |-> {},
     vms |-> [h \in Hosts |-> 0],
     gpus |-> [h \in Hosts |-> 0],
     failing_page |-> 0]

InitCache ==
    /\ cache = <<>>
    /\ stamp = <<>>
    /\ active = <<>>
    /\ lock = 0
    /\ now = 0
    /\ pc = [t \in Threads |-> "idle"]
    /\ op = [t \in Threads |-> IdleOp]
    /\ poll = [t \in Threads |-> 0]
    /\ local = [t \in Threads |-> NoLocal]
    /\ ret = [t \in Threads |-> NoRet]
    /\ calls = 0
    /\ published = FALSE
    /\ timedOut = FALSE
    /\ patched = [t \in Threads |-> <<>>]
    /\ atCall = [t \in Threads |-> NotHeld]

Init == world = ProtocolWorld /\ InitCache

ThreadStep(t) ==
    \/ \E o \in ProtocolOps : Call(t, o)
    \/ get_L25(t) \/ get_L26(t) \/ get_L29(t) \/ get_L32(t) \/ get_L34(t) \/ get_L35(t)
    \/ get_L38(t) \/ get_L41(t) \/ get_L45(t) \/ get_L47(t) \/ get_L50(t)
    \/ get_L51(t) \/ get_L61(t) \/ get_L87(t) \/ get_L88(t) \/ get_L94(t)
    \/ clear_L936(t) \/ clear_L937(t) \/ clear_L938(t)
    \/ patch_lock(t) \/ patch_check(t) \/ patch_read(t) \/ patch_vm_L974(t) \/ patch_mig_L1006(t)

Next == Tick \/ \E t \in Threads : ThreadStep(t)

Spec == Init /\ [][Next]_vars

(***************************************************************************)
(* One caller at a time: each call runs from its first line to its return  *)
(* with nothing interleaved, over every layout of the backends within the  *)
(* bounds.                                                                 *)
(***************************************************************************)
MaxAggs == 2
MaxDataCalls == 2

AggNameSeq == <<"H100-n3", "H100-n3-spot", "H100-n3-NVLink-spot", "Contract-8xA100", "tempest", "misc">>
HostSeq == <<"h1", "h2">>
HostLists == {<<>>, <<"h1">>, <<"h2">>, <<"h1", "h2">>}
DeviceKinds == {"absent", "active_gpu", "offline_gpu", "active_plain"}

RECURSIVE SortedSeq(_)
SortedSeq(S) ==
    IF S = {} THEN <<>>
    ELSE LET m == CHOOSE x \in S : \A y \in S : x <= y
         IN  <<m>> \o SortedSeq(S \ {m})

\* the aggregates numbered S of AggNameSeq, aggregate i with the hosts hl[i]
Layout(S, hl) ==
    LET idx == SortedSeq(S)
    IN  [ k \in 1..Len(idx) |-> [name |-> AggNameSeq[idx[k]], hosts |-> hl[idx[k]]] ]

\* the directory listing: the hosts that are not "absent", in HostSeq order
RECURSIVE Directory(_, _)
Directory(dv, k) ==
    IF k > Len(HostSeq) THEN <<>>
    ELSE LET h == HostSeq[k]
         IN  (IF dv[h] = "absent" THEN <<>>
              ELSE <<Device(h, IF dv[h] = "offline_gpu" THEN "offline" ELSE "active",
                            dv[h] # "active_plain")>>)
             \o Directory(dv, k + 1)

DataWorlds ==
    UNION { { [aggs |-> Layout(S, hl), devices |-> Directory(dv, 1), disabled |-> dis,
               vms |-> [h \in Hosts |-> 0], gpus |-> [h \in Hosts |-> 0],
               failing_page |-> 0] :
                hl \in [S -> HostLists], dv \in [Hosts -> DeviceKinds], dis \in SUBSET {"h1"} } :
            S \in { T \in SUBSET (1..Len(AggNameSeq)) : Cardinality(T) <= MaxAggs } }

DataReturn(name, kind, l, flag, snap, F) ==
    ret' = [ret EXCEPT ![1] = [op |-> [IdleOp EXCEPT !.name = name], kind |-> kind, at |-> l,
                               flag |-> flag, count |-> 0, snap |-> snap, failed |-> F]]

\* get_all_data_parallel, lines 17-95, by a single caller
D_Get ==
    /\ calls < MaxDataCalls
    /\ calls' = calls + 1
    /\ IF Fresh
       THEN /\ DataReturn("get", "snapshot", "L29", FALSE, <<cache[1].data>>, {})
            /\ UNCHANGED <<cache, stamp, published>>
       ELSE \E F \in FailChoices :
              \E organized_data \in {organize_parallel_results(CollectAll(world, F))} :
                  /\ cache' = <<[id |-> NewId, data |-> organized_data]>>
                  /\ stamp' = <<now>>
                  /\ published' = TRUE
                  /\ DataReturn("get", "snapshot", "L90", FALSE, <<organized_data>>, F)
    /\ UNCHANGED <<world, active, lock, now, pc, op, poll, local, timedOut, patched, atCall>>

\* update_host_vm_count_in_cache, lines 958-988, by a single caller
D_PatchVm(hostname, new_vm_count) ==
    /\ calls < MaxDataCalls
    /\ calls' = calls + 1
    /\ IF cache = <<>>
       THEN /\ DataReturn("patch_vm", "bool", "L968", FALSE, <<>>, {})
            /\ UNCHANGED cache
       ELSE \E r \in {update_host_vm_count_in_cache(cache[1].data, hostname, new_vm_count)} :
                /\ cache' = <<[id |-> cache[1].id, data |-> r.data]>>
                /\ DataReturn("patch_vm", "bool", IF r.ret THEN "L985" ELSE "L988", r.ret, <<>>, {})
    /\ UNCHANGED <<world, stamp, active, lock, now, pc, op, poll, local, published, timedOut, patched, atCall>>

\* update_host_aggregate_in_cache, lines 990-1034, by a single caller
D_PatchMig(hostname, old_aggregate, new_aggregate) ==
    /\ calls < MaxDataCalls
    /\ calls' = calls + 1
    /\ IF cache = <<>>
       THEN /\ DataReturn("patch_mig", "bool", "L1000", FALSE, <<>>, {})
            /\ UNCHANGED cache
       ELSE \E r \in {update_host_aggregate_in_cache(cache[1].data, hostname,
                                                      old_aggregate, new_aggregate)} :
                /\ cache' = <<[id |-> cache[1].id, data |-> r.data]>>
                /\ DataReturn("patch_mig", "bool",
                              IF r.ret THEN "L1031"
                              ELSE IF r.data = cache[1].data THEN "L1019" ELSE "L1034",
                              r.ret, <<>>, {})
    /\ UNCHANGED <<world, stamp, active, lock, now, pc, op, poll, local, published, timedOut, patched, atCall>>

\* the aggregate names a migration patch may name: those of the backends, the
\* directory's default custom field, and one no record carries
MigNames == { world.aggs[i].name : i \in 1..Len(world.aggs) } \cup {"unknown", "misc"}

InitData == world \in DataWorlds /\ InitCache

NextData ==
    \/ D_Get
    \/ \E h \in PatchHosts, n \in 1..MaxVm : D_PatchVm(h, n)
    \/ \E h \in Hosts, a \in MigNames, b \in MigNames : D_PatchMig(h, a, b)

SpecData == InitData /\ [][NextData]_vars

(***************************************************************************)
(* One caller forcing a refresh, over every set of failing agents, with    *)
(* backends of three aggregates and five directory devices: two on-demand  *)
(* hosts of which one has its compute service disabled, a spot host, a     *)
(* host of a tempest aggregate and an offline device outside OpenStack.    *)
(***************************************************************************)
ScenarioHosts == {"h1", "h2", "h3", "h4", "h5"}

\* the three aggregates carry the names the classifier's first pattern
\* knows, or names without the "-n3" the pattern requires
ScenarioNames ==
    { <<"H100-n3", "H100-n3-spot", "H100-n3-tempest">>,
      <<"GPU-X", "GPU-X-spot", "GPU-X-tempest">> }

ScenarioWorld(names, V, G) ==
    [aggs |-> << [name |-> names[1], hosts |-> <<"h1", "h2">>],
                 [name |-> names[2], hosts |-> <<"h3">>],
                 [name |-> names[3], hosts |-> <<"h4">>] >>,
     devices |-> << Device("h1", "active", TRUE), Device("h2", "active", TRUE),
                    Device("h3", "active", TRUE), Device("h4", "active", TRUE),
                    Device("h5", "offline", TRUE) >>,
     disabled |-> {"h2"},
     vms |-> [h \in ScenarioHosts |-> IF h \in V THEN 1 ELSE 0],
     gpus |-> [h \in ScenarioHosts |-> IF h \in G THEN 8 ELSE 0],
     failing_page |-> 0]

PipelineWorlds ==
    { ScenarioWorld(names, V, G) :
        names \in ScenarioNames, V \in SUBSET {"h1", "h3"}, G \in SUBSET {"h1"} }

\* force_cache_refresh, lines 942-946, by a single caller: the cache is
\* cleared, the pipeline runs with the agents in F failing, and the result
\* is stored and returned
P_Force(F) ==
    /\ calls < MaxDataCalls
    /\ calls' = calls + 1
    /\ \E organized_data \in {organize_parallel_results(CollectAll(world, F))} :
          /\ cache' = <<[id |-> NewId, data |-> organized_data]>>
          /\ stamp' = <<now>>
          /\ published' = TRUE
          /\ DataReturn("force", "snapshot", "L90", FALSE, <<organized_data>>, F)
    /\ UNCHANGED <<world, active, lock, now, pc, op, poll, local, timedOut, patched, atCall>>

InitPipeline == world \in PipelineWorlds /\ InitCache

NextPipeline == \E F \in SUBSET Sources : P_Force(F)

SpecPipeline == InitPipeline /\ [][NextPipeline]_vars

(***************************************************************************)
(* Properties of the cache protocol (specification Spec)                   *)
(***************************************************************************)
\* thread t is between the start of the agents and the end of publication
Executing(t) == pc[t] \in {"L61", "L87", "L88"}

\* the vm counts the snapshot snap shows for host h
Positions(snap) ==
    UNION { { <<k, i>> : i \in 1..Len(EntryHosts(snap, k)) } : k \in 1..NumEntries(snap) }

RecordAt(snap, x) == EntryHosts(snap, x[1])[x[2]]

VmCountsOf(snap, h) ==
    { RecordAt(snap, x).vm_count : x \in { y \in Positions(snap) : RecordAt(snap, y).hostname = h } }

\* how many records of snap have hostname h and aggregate a
RecordsWith(snap, h, a) ==
    Cardinality({ x \in Positions(snap) :
                    RecordAt(snap, x).hostname = h /\ RecordAt(snap, x).aggregate = a })

AgeBelowTtl == cache # <<>> /\ stamp # <<>> /\ now - stamp[1] < 600

\* C1, as stated: whenever threads call Get on an empty or stale cache, at
\* most one execution of the agents is in progress, and until it publishes
\* the cache holds no fresh snapshot (no Get starts one on a fresh cache).
C1_ExactlyOneExecution ==
    \A t \in Threads :
        Executing(t) => /\ pc[t] # "L88" => ~AgeBelowTtl
                        /\ \A u \in Threads \ {t} : ~Executing(u)

\* C1, amended: the same, as long as no waiting caller has used up its 30
\* one-second polls (such a caller starts an execution of its own).
C1_SingleFlightUntilTimeout ==
    ~timedOut => C1_ExactlyOneExecution

\* C1 witness: two concurrent Gets, one ran the agents and published, the
\* other waited and returned the very snapshot the first one published.
C1_WaiterSharesSnapshot ==
    /\ ~timedOut
    /\ \E t \in Threads, u \in Threads :
         /\ ret[t].op.name = "get" /\ ret[t].kind = "snapshot" /\ ret[t].at = "L90"
         /\ ret[u].op.name = "get" /\ ret[u].kind = "snapshot" /\ ret[u].at = "L50"
         /\ ret[u].snap = ret[t].snap

\* C5, as stated: when every agent of a refresh fails while a snapshot is
\* cached, the publication step leaves the cached snapshot as it was.
C5_FailedRefreshKeepsSnapshot ==
    [][ \A t \in Threads :
          ( /\ pc[t] = "L87" /\ pc'[t] = "L88"
            /\ local[t].failed = Sources
            /\ cache # <<>> )
          => cache' = cache ]_vars

\* C6, as stated: when every agent fails and nothing has been published
\* yet, no snapshot is put into the cache and the call does not return one.
C6_NothingPublishedOnFailure ==
    [][ \A t \in Threads :
          /\ ( /\ pc[t] = "L87" /\ pc'[t] = "L88"
               /\ local[t].failed = Sources /\ ~published )
             => cache' = <<>>
          /\ ( /\ pc[t] = "L94" /\ pc'[t] = "idle"
               /\ local[t].failed = Sources /\ cache = <<>> )
             => ret'[t].kind # "snapshot" ]_vars

\* the Get of thread t that followed its successful vm count patch returned
AfterPatchGet(t) ==
    /\ pc[t] = "idle"
    /\ ret[t].op.name \in {"get", "force"}
    /\ patched[t] # <<>>

\* that Get returned the cached snapshot, showing the patched count, and ran
\* no agents
ServedPatched(t) ==
    /\ ret[t].kind = "snapshot"
    /\ ret[t].at \in {"L29", "L38", "L50"}
    /\ VmCountsOf(ret[t].snap[1], patched[t][1].hostname) = {patched[t][1].n}

\* C9, as stated: after a vm count patch of host h to n returned true, the
\* caller's next Get returns a snapshot where h has count n, without
\* running the agents.
C9_NextGetShowsPatch ==
    \A t \in Threads : AfterPatchGet(t) => ServedPatched(t)

\* C9, amended: the same, provided the snapshot object the patch wrote to was
\* the cached one and, up to the return of the Get, no publication replaced
\* it (so its age stayed below the TTL for the Get), no Clear removed the
\* snapshot or its timestamp, and h was not patched again.
C9_NextGetShowsIntactPatch ==
    \A t \in Threads :
        AfterPatchGet(t) /\ patched[t][1].intact => ServedPatched(t)

\* C9 witness: a Get right after the caller's own patch returned the cached
\* snapshot from the lock-free path, with the patched count
C9_PatchedThenServed ==
    \E t \in Threads :
        /\ AfterPatchGet(t) /\ patched[t][1].intact
        /\ ret[t].at = "L29"
        /\ patched[t][1].n \in VmCountsOf(ret[t].snap[1], patched[t][1].hostname)

\* C10: the path of lines 25-29 never holds the lock and waits for nothing;
\* from the test of line 26 it goes to the return of line 29 exactly when
\* the age is below 600 s, and else to the locked path; the return of line
\* 29 hands out the cached snapshot and changes nothing shared.
C10_LockFreeFastPath ==
    /\ [][ \A t \in Threads :
             /\ ( pc[t] = "L26" /\ pc'[t] # "L26" /\ stamp # <<>> )
                => /\ lock' = lock
                   /\ IF now - stamp[1] < 600 THEN pc'[t] = "L29" ELSE pc'[t] = "L32"
             /\ ( pc[t] = "L29" /\ pc'[t] # "L29" /\ cache # <<>> )
                => /\ ret'[t].kind = "snapshot" /\ ret'[t].at = "L29"
                   /\ ret'[t].snap = <<cache[1].data>>
                   /\ UNCHANGED <<cache, stamp, active, lock>> ]_vars
    /\ [](\A t \in Threads :
            pc[t] \in {"L25", "L26", "L29"}
            => /\ lock # t
               /\ ENABLED (get_L25(t) \/ get_L26(t) \/ get_L29(t)))

\* C10 witness: a Get returned from line 29 while another thread, inside a
\* patch, holds the lock
C10_ReturnedWhileLockHeld ==
    \E t \in Threads : \E u \in Threads \ {t} :
        /\ ret[t].op.name = "get" /\ ret[t].at = "L29" /\ ret[t].kind = "snapshot"
        /\ pc[t] = "idle"
        /\ lock = u /\ pc[u] \in {"L966", "L970", "L974", "L998", "L1002", "L1006"}

\* C2, as stated: a migration patch of the cached snapshot either returns
\* true, with one record of H less under A and one more under B, or returns
\* false and leaves the cached snapshot exactly as it was.
C2_MigrationAllOrNothing ==
    [][ \A t \in Threads :
          ( /\ pc[t] = "L1006" /\ pc'[t] = "idle"
            /\ cache # <<>> /\ cache[1].id = local[t].ref[1].id )
          => LET H == op[t].hostname
                 A == op[t].old
                 B == op[t].new
                 before == cache[1].data
                 after == cache'[1].data
             IN  IF ret'[t].flag
                 THEN /\ RecordsWith(after, H, A) = RecordsWith(before, H, A) - 1
                      /\ RecordsWith(after, H, B) = RecordsWith(before, H, B) + 1
                 ELSE cache' = cache ]_vars

(***************************************************************************)
(* Properties of the snapshot and of the patches (specification SpecData)  *)
(***************************************************************************)
\* the single caller's last call ran the agents and organized their results
JustOrganized ==
    /\ ret[1].op.name = "get" /\ ret[1].at = "L90"
    /\ cache # <<>>

GpuDevices == { i \in 1..Len(world.devices) : world.devices[i].is_gpu_server }

\* C3, as stated: in a snapshot organize_parallel_results produced, every
\* hostname has at most one record over all buckets and the out-of-stock
\* entry together.
C3_HostnameUnique ==
    JustOrganized =>
        \A h \in Hosts :
            Cardinality({ x \in Positions(cache[1].data) :
                            RecordAt(cache[1].data, x).hostname = h }) <= 1

\* C4, as stated: when no agent failed, the host records of all buckets
\* and of the out-of-stock entry are as many as the GPU-tagged devices of
\* the directory.
C4_RecordsMatchDirectory ==
    JustOrganized /\ ret[1].failed = {} =>
        Cardinality(Positions(cache[1].data)) = Cardinality(GpuDevices)

\* cache' differs from cache at most in the vm_count of the records of h
VmFrame(h) ==
    /\ stamp' = stamp /\ active' = active
    /\ (cache' = <<>>) <=> (cache = <<>>)
    /\ cache # <<>> =>
         LET a == cache[1].data
             b == cache'[1].data
         IN  /\ cache'[1].id = cache[1].id
             /\ Len(b.buckets) = Len(a.buckets)
             /\ \A k \in 1..Len(a.buckets) :
                    [b.buckets[k] EXCEPT !.hosts = <<>>] = [a.buckets[k] EXCEPT !.hosts = <<>>]
             /\ [b.outofstock EXCEPT !.hosts = <<>>] = [a.outofstock EXCEPT !.hosts = <<>>]
             /\ Positions(b) = Positions(a)
             /\ \A x \in Positions(a) :
                    /\ [RecordAt(b, x) EXCEPT !.vm_count = RecordAt(a, x).vm_count] = RecordAt(a, x)
                    /\ RecordAt(a, x).hostname # h => RecordAt(b, x) = RecordAt(a, x)

\* C7: a vm count patch for H changes nothing but the vm_count of the
\* records whose hostname is H: the other fields of those records, the
\* records of the other hosts, the host lists and counts of all entries,
\* the timestamp and the in-flight marker stay as they were.
C7_PatchVmFrame ==
    [][ ret'[1].op.name = "patch_vm" =>
          \A h \in PatchHosts, n \in 1..MaxVm : D_PatchVm(h, n) => VmFrame(h) ]_vars

\* C7 witness: a patch updated a host of a snapshot that also holds a record
\* of another host
C7_PatchedAmongOthers ==
    /\ ret[1].op.name = "patch_vm" /\ ret[1].flag
    /\ cache # <<>>
    /\ \E x \in Positions(cache[1].data), y \in Positions(cache[1].data) :
          /\ RecordAt(cache[1].data, x).vm_count > 0
          /\ RecordAt(cache[1].data, y).hostname # RecordAt(cache[1].data, x).hostname

\* C8: a vm count patch returns false and changes nothing in the cache when
\* no snapshot is cached or no record has the hostname; it returns true
\* exactly when at least one record has it, all of which then carry the new
\* count; it never puts a snapshot into an empty cache.
C8_PatchVmResult ==
    [][ ret'[1].op.name = "patch_vm" =>
          \A h \in PatchHosts, n \in 1..MaxVm :
              D_PatchVm(h, n) =>
                LET found == /\ cache # <<>>
                             /\ \E x \in Positions(cache[1].data) :
                                    RecordAt(cache[1].data, x).hostname = h
                IN  /\ ret'[1].kind = "bool"
                    /\ ret'[1].flag <=> found
                    /\ ~found => cache' = cache
                    /\ found => VmCountsOf(cache'[1].data, h) = {n}
                    /\ cache = <<>> => cache' = <<>> ]_vars

\* C8 witness: a patch for a hostname no record carries returned false from
\* line 988, with a snapshot cached
C8_HostNotFound ==
    /\ ret[1].op.name = "patch_vm" /\ ret[1].kind = "bool" /\ ~ret[1].flag
    /\ ret[1].at = "L988"
    /\ cache # <<>>

(***************************************************************************)
(* force_cache_refresh                                                     *)
(***************************************************************************)
\* C11: a force_cache_refresh never returns the snapshot that was cached
\* when it began, fresh or not: whenever it returns a snapshot, the one
\* cached at its start has been removed or replaced and line 87 has stored
\* one since; it returns from the cache (lines 29, 38, 50) what is cached
\* then, and from line 90 the snapshot it has built itself.
C11_ForceReturnsNewSnapshot ==
    [][ \A t \in Threads :
          (/\ op[t].name = "force" /\ pc[t] # "idle" /\ pc'[t] = "idle"
           /\ ret'[t].kind = "snapshot") =>
              /\ ~atCall[t].held
              /\ published
              /\ \/ /\ pc[t] \in {"L29", "L38", "L50"}
                    /\ ret'[t].snap = <<cache[1].data>>
                 \/ /\ pc[t] = "L94"
                    /\ ret'[t].snap = <<local[t].ref[1].data>> ]_vars

\* C11 witness: a force_cache_refresh that began with a fresh snapshot
\* cached has emptied the cache, built and stored a new snapshot, and is at
\* its last line, about to return it
C11_ForcedOverFreshSnapshot ==
    \E t \in Threads :
        /\ op[t].name = "force" /\ pc[t] = "L94"
        /\ atCall[t].fresh /\ ~atCall[t].held
        /\ cache = local[t].ref

\* C12, as stated: a force_cache_refresh never runs the pipeline while
\* another execution is in flight, and of two force_cache_refresh calls that
\* overlap only one runs the pipeline.
C12_ForceSingleFlight ==
    \A t \in Threads :
        (op[t].name = "force" /\ Executing(t)) =>
            \A u \in Threads \ {t} :
                /\ ~Executing(u)
                /\ ~(/\ atCall[t].overlap
                     /\ pc[u] = "idle" /\ ret[u].op.name = "force" /\ ret[u].at = "L90")

\* C12, amended: as long as no waiter has timed out, a force_cache_refresh
\* that runs the pipeline holds the in-flight marker and no other thread is
\* between its lines 61 and 94; overlapping force calls may each run the
\* pipeline, one after the other.
C12_ForceSingleFlightUntilTimeout ==
    ~timedOut =>
        \A t \in Threads :
            (op[t].name = "force" /\ Executing(t)) =>
                /\ active = <<t>>
                /\ \A u \in Threads \ {t} : pc[u] \notin {"L61", "L87", "L88", "L94"}

\* C12 witness: a force_cache_refresh found the marker set, waited, and
\* returned the snapshot from line 50, no waiter having timed out
C12_ForceWaitedForInFlight ==
    \E t \in Threads :
        /\ pc[t] = "idle" /\ ret[t].op.name = "force" /\ ret[t].at = "L50"
        /\ ret[t].kind = "snapshot"
        /\ ~timedOut

JustForced ==
    /\ ret[1].op.name = "force" /\ ret[1].at = "L90"
    /\ cache # <<>>

\* the host records of the resource-type entries of snap
BucketRecords(snap) ==
    UNION { SeqRange(snap.buckets[k].hosts) : k \in 1..Len(snap.buckets) }

\* C14: when a non-empty proper subset F of the five agents fails, the
\* refresh still stores and returns a snapshot, in which a failed agent shows
\* as its default (no buckets, vm count 0, no gpu in use, tenant "Unknown",
\* no out-of-stock devices, no compute_disabled device) and every other agent
\* as what the backends hold.
C14_PartialFailureDegrades ==
    (JustForced /\ ret[1].failed # {} /\ ret[1].failed # Sources) =>
        LET F == ret[1].failed
            snap == cache[1].data
            recs == BucketRecords(snap)
            cat == snap.outofstock.categories
        IN  /\ ret[1].kind = "snapshot" /\ ret[1].snap = <<snap>> /\ stamp # <<>>
            /\ "aggregates" \in F => snap.buckets = <<>>
            /\ ("aggregates" \notin F /\ world.aggs[1].name = "H100-n3") =>
                  { r.hostname : r \in recs } = {"h1", "h2", "h3"}
            /\ \A r \in recs :
                  /\ \E i \in 1..Len(world.aggs) :
                        /\ world.aggs[i].name = r.aggregate
                        /\ r.hostname \in SeqRange(world.aggs[i].hosts)
                  /\ r.vm_count = IF "vm_counts" \in F THEN 0 ELSE world.vms[r.hostname]
                  /\ r.gpu_info.gpu_used = IF "gpu_info" \in F THEN 0 ELSE world.gpus[r.hostname]
                  /\ r.tenant_info.tenant = IF "netbox" \in F THEN "Unknown" ELSE "Acme"
            /\ "netbox" \in F => snap.outofstock.hosts = <<>>
            /\ "netbox" \notin F => "h5" \in SeqRange(cat["netbox_non_active"])
            /\ "compute_services" \in F => cat["compute_disabled"] = <<>>
            /\ ("netbox" \notin F /\ "compute_services" \notin F) =>
                  SeqRange(cat["compute_disabled"]) = {"h2"}
            /\ ("netbox" \notin F /\ "aggregates" \in F) =>
                  {"h1", "h3", "h4"} \subseteq SeqRange(cat["not_in_openstack"])
            /\ ("netbox" \notin F /\ "aggregates" \notin F) =>
                  SeqRange(cat["in_tempest"]) = {"h4"}

\* C14 witness: the vm count agent alone failed; the snapshot shows vm count
\* 0 for h1, on which the backend counts one VM, and the directory's tenant
C14_VmCountsFailedAlone ==
    /\ JustForced /\ ret[1].failed = {"vm_counts"}
    /\ world.vms["h1"] = 1
    /\ \E r \in BucketRecords(cache[1].data) :
          r.hostname = "h1" /\ r.vm_count = 0 /\ r.tenant_info.tenant = "Acme"

(***************************************************************************)
(* The out-of-stock entry                                                  *)
(***************************************************************************)
\* the hosts the backends list in a tempest aggregate, and in any other
WorldTempestHosts ==
    UNION { SeqRange(world.aggs[i].hosts) :
              i \in { j \in 1..Len(world.aggs) : IsTempestName(world.aggs[j].name) } }
WorldProductiveHosts ==
    UNION { SeqRange(world.aggs[i].hosts) :
              i \in { j \in 1..Len(world.aggs) : ~IsTempestName(world.aggs[j].name) } }

\* the reasons the out-of-stock records of snap give for host h
ReasonsOf(snap, h) ==
    { r.outofstock_reason : r \in { q \in SeqRange(snap.outofstock.hosts) : q.hostname = h } }

\* the reason categories of snap that list host h
CategoriesOf(snap, h) ==
    { c \in SeqRange(Reasons) : h \in SeqRange(snap.outofstock.categories[c]) }

\* C15: with no agent failing, the reason of a GPU-tagged device follows the
\* precedence: not active gives netbox_non_active whatever OpenStack says;
\* else a disabled compute service gives compute_disabled, also for a host
\* of a tempest aggregate or of none; else membership of a tempest aggregate
\* gives in_tempest; else absence from every productive aggregate gives
\* not_in_openstack.
C15_ReasonPrecedence ==
    (JustOrganized /\ ret[1].failed = {}) =>
        \A i \in GpuDevices :
            LET d == world.devices[i]
                h == d.hostname
                expected ==
                    IF d.status # "active" THEN {"netbox_non_active"}
                    ELSE IF h \in world.disabled THEN {"compute_disabled"}
                    ELSE IF h \in WorldTempestHosts THEN {"in_tempest"}
                    ELSE IF h \notin WorldProductiveHosts THEN {"not_in_openstack"}
                    ELSE {}
            IN  /\ ReasonsOf(cache[1].data, h) = expected
                /\ CategoriesOf(cache[1].data, h) = expected

\* C15 witness: h1 is active, has its compute service disabled and is in a
\* tempest aggregate; the snapshot gives compute_disabled
C15_DisabledBeatsTempest ==
    /\ JustOrganized /\ ret[1].failed = {}
    /\ \E i \in GpuDevices : world.devices[i].hostname = "h1" /\ world.devices[i].status = "active"
    /\ "h1" \in world.disabled /\ "h1" \in WorldTempestHosts
    /\ ReasonsOf(cache[1].data, "h1") = {"compute_disabled"}

C17_TempestOnlyIfNotProductive ==
    (JustOrganized /\ ret[1].failed = {}) =>
        /\ \A h \in SeqRange(cache[1].data.outofstock.categories["in_tempest"]) :
              h \in WorldTempestHosts /\ h \notin WorldProductiveHosts
        /\ \A i \in GpuDevices :
              (/\ world.devices[i].status = "active"
               /\ world.devices[i].hostname \notin world.disabled
               /\ world.devices[i].hostname \in WorldProductiveHosts) =>
                  ReasonsOf(cache[1].data, world.devices[i].hostname) = {}

\* C18, as stated: for the backends with aggregates X = [h1, h2],
\* X-spot = [h3], X-tempest = [h4], devices h1..h4 active and h5 offline, all
\* GPU-tagged, and only h2's compute service disabled, the snapshot has one
\* bucket with h1 in the on-demand and h3 in the spot aggregate and without
\* h2, the out-of-stock entry is h2 compute_disabled, h4 in_tempest and h5
\* netbox_non_active, and there are five records in all.
C18_ScenarioSnapshot ==
    (JustForced /\ ret[1].failed = {}) =>
        LET snap == cache[1].data
        IN  /\ Len(snap.buckets) = 1
            /\ { <<r.hostname, r.aggregate>> : r \in BucketRecords(snap) }
                 = { <<"h1", world.aggs[1].name>>, <<"h3", world.aggs[2].name>> }
            /\ { <<r.hostname, r.outofstock_reason>> : r \in SeqRange(snap.outofstock.hosts) }
                 = { <<"h2", "compute_disabled">>, <<"h4", "in_tempest">>,
                     <<"h5", "netbox_non_active">> }
            /\ Cardinality(Positions(snap)) = 5

(***************************************************************************)
(* validate_inventory_accountability                                       *)
(***************************************************************************)
\* what validate_inventory_accountability finds for the cached snapshot and
\* the directory listing of the backends
Verdict ==
    validate_inventory_accountability(cache[1].data, netbox_agent(world, {}).all_devices)

\* C19: with no agent failing, the snapshot stored and returned is the one
\* built from the classification and the out-of-stock computation, whether
\* its bucket totals and out-of-stock count add up to the number of
\* GPU-tagged devices or not: every classified type has its bucket with all
\* hosts of its aggregates, and the out-of-stock entry is complete.
C19_MismatchDoesNotAlterSnapshot ==
    (JustOrganized /\ ret[1].failed = {}) =>
        LET snap == cache[1].data
            results == CollectAll(world, {})
            gpu_aggregates == classify_aggregates_by_gpu_type(results.aggregates.aggregates)
        IN  /\ ret[1].kind = "snapshot" /\ ret[1].snap = <<snap>> /\ stamp # <<>>
            /\ Len(snap.buckets) = Len(gpu_aggregates)
            /\ \A k \in 1..Len(snap.buckets) :
                  /\ snap.buckets[k].gpu_type = gpu_aggregates[k].gpu_type
                  /\ [ i \in 1..Len(snap.buckets[k].hosts) |-> snap.buckets[k].hosts[i].hostname ]
                        = BucketHostnames(gpu_aggregates[k].config, world.aggs)
                  /\ snap.buckets[k].total_hosts = Len(snap.buckets[k].hosts)
            /\ snap.outofstock
                 = compute_comprehensive_outofstock_devices(
                       results.netbox.all_devices, world.aggs, world.disabled)
            /\ Verdict.is_valid <=>
                  Cardinality(GpuDevices) = Cardinality(Positions(snap))

\* C19 witness: the validation finds a mismatch for the snapshot just stored,
\* which has a bucket with a host and an out-of-stock device
C19_PublishedThoughInvalid ==
    /\ JustOrganized /\ ret[1].failed = {}
    /\ ~Verdict.is_valid
    /\ cache[1].data.buckets # <<>>
    /\ cache[1].data.buckets[1].hosts # <<>>
    /\ cache[1].data.outofstock.hosts # <<>>

(***************************************************************************)
(* The order in which the backends list aggregates, hosts and devices      *)
(***************************************************************************)
Reverse(s) == [ i \in 1..Len(s) |-> s[Len(s) + 1 - i] ]

\* the backends with the aggregates, the hosts inside every aggregate, or
\* the directory devices listed in the opposite order; with at most two of
\* each these are all the orders there are
ReversedAggregates(w) == [w EXCEPT !.aggs = Reverse(w.aggs)]
ReversedHosts(w) ==
    [w EXCEPT !.aggs = [ i \in 1..Len(w.aggs) |->
                           [name |-> w.aggs[i].name, hosts |-> Reverse(w.aggs[i].hosts)] ]]
ReversedDevices(w) == [w EXCEPT !.devices = Reverse(w.devices)]

\* what snap assigns: to a bucket host its resource type and aggregate, to
\* an out-of-stock device its reason
Assignments(snap) ==
    UNION { { <<r.hostname, snap.buckets[k].gpu_type, r.aggregate>> :
                r \in SeqRange(snap.buckets[k].hosts) } : k \in 1..Len(snap.buckets) }
    \cup { <<r.hostname, "outofstock", r.outofstock_reason>> :
                r \in SeqRange(snap.outofstock.hosts) }

\* C20, as stated: with no agent failing, the snapshot assigns every host
\* the same bucket, aggregate and out-of-stock reason as the snapshot built
\* from the same backends listing their aggregates, the hosts of each
\* aggregate, or the directory devices in another order.
C20_OrderIndependent ==
    (JustOrganized /\ ret[1].failed = {}) =>
        \A w \in {ReversedAggregates(world), ReversedHosts(world), ReversedDevices(world)} :
            Assignments(organize_parallel_results(CollectAll(w, {})))
              = Assignments(cache[1].data)

(***************************************************************************)
(* The wait of lines 41-51                                                 *)
(***************************************************************************)
\* thread t takes a step
Moves(t) == pc'[t] # pc[t] \/ poll'[t] # poll[t]

\* C21: a get_all_data_parallel that finds the in-flight marker at line 41
\* starts polling; every poll sleeps one second; a poll that finds snapshot
\* and timestamp with age < TTL goes to line 50 and returns the cached
\* snapshot; a poll that does not is counted, and only the 30th such poll
\* leads to line 51, where the thread sets the marker to itself and enters
\* the pipeline.  No thread polls more than 30 times.
C21_BoundedWait ==
    [][ \A t \in Threads :
          /\ poll[t] <= 30
          /\ (pc[t] = "L41" /\ active # <<>> /\ Moves(t)) =>
                pc'[t] = "L45" /\ poll'[t] = 0 /\ active' = active
          /\ (pc[t] = "L45" /\ Moves(t)) =>
                /\ now' = now + 1
                /\ (cache # <<>> /\ stamp # <<>>) => pc'[t] = "L47" /\ poll'[t] = poll[t]
                /\ ~(cache # <<>> /\ stamp # <<>>) =>
                      /\ poll'[t] = poll[t] + 1
                      /\ pc'[t] = IF poll[t] + 1 < 30 THEN "L45" ELSE "L51"
          /\ (pc[t] = "L47" /\ Moves(t) /\ stamp # <<>>) =>
                IF now - stamp[1] < 600
                THEN pc'[t] = "L50" /\ poll'[t] = poll[t]
                ELSE /\ poll'[t] = poll[t] + 1
                     /\ pc'[t] = IF poll[t] + 1 < 30 THEN "L45" ELSE "L51"
          /\ (pc[t] = "L50" /\ Moves(t) /\ cache # <<>>) =>
                /\ pc'[t] = "idle"
                /\ ret'[t].kind = "snapshot" /\ ret'[t].snap = <<cache[1].data>>
                /\ active' = active
          /\ (pc[t] # "L51" /\ pc'[t] = "L51") => poll'[t] = 30
          /\ (pc[t] = "L51" /\ Moves(t)) => pc'[t] = "L61" /\ active' = <<t>>
          /\ (pc[t] \in {"L45", "L47", "L50"} /\ Moves(t)) => pc'[t] # "L61" ]_vars

\* C21 witness: after 30 polls without a fresh snapshot a waiter has set the
\* marker to itself and is in the pipeline, as is the thread it waited for
C21_WaitedThirtyPolls ==
    \E t \in Threads :
        /\ pc[t] = "L61" /\ op[t].name = "get" /\ active = <<t>>
        /\ timedOut
        /\ now >= 30
        /\ \E u \in Threads \ {t} : pc[u] = "L61"

(***************************************************************************)
(* Progress of the cache protocol.  The threads of the web server are      *)
(* scheduled by the operating system: a thread whose next line can run     *)
(* does run it eventually.  Nothing is assumed of the backends: the        *)
(* pipeline of lines 56-84 is given no fairness, so an execution may hang. *)
(***************************************************************************)
LiveOps == {GetOp, ClearOp}

\* the lines of get_all_data_parallel and clear_parallel_cache but the pipeline
Proceed(t) ==
    \/ get_L25(t) \/ get_L26(t) \/ get_L29(t) \/ get_L32(t) \/ get_L34(t) \/ get_L35(t)
    \/ get_L38(t) \/ get_L41(t) \/ get_L45(t) \/ get_L47(t) \/ get_L50(t)
    \/ get_L51(t) \/ get_L87(t) \/ get_L88(t) \/ get_L94(t)
    \/ clear_L936(t) \/ clear_L937(t) \/ clear_L938(t)

LiveStep(t) ==
    \/ \E o \in LiveOps : Call(t, o)
    \/ get_L61(t)
    \/ Proceed(t)

NextLive == Tick \/ \E t \in Threads : LiveStep(t)

SpecLive == Init /\ [][NextLive]_vars /\ \A t \in Threads : WF_vars(Proceed(t))

\* every pipeline execution terminates
PipelinesTerminate == \A t \in Threads : []<>(pc[t] # "L61")

\* a thread inside a call, not in the pipeline, whose next line cannot run
Blocked(t) == pc[t] \notin {"idle", "L61"} /\ ~ENABLED Proceed(t)

\* C22: no reachable state has every thread that is inside a call blocked;
\* a thread polling at lines 44-50 leaves the wait (to its return or to its
\* own pipeline execution) whether or not the marker is ever cleared; and
\* if every pipeline execution terminates, every call ends.
C22_DeadlockFreeAndTerminating ==
    /\ []((\E t \in Threads : pc[t] # "idle") => \E t \in Threads : pc[t] # "idle" /\ ~Blocked(t))
    /\ \A t \in Threads : (pc[t] \in {"L45", "L47", "L50"}) ~> (pc[t] \in {"L61", "idle"})
    /\ PipelinesTerminate => \A t \in Threads : (pc[t] # "idle") ~> (pc[t] = "idle")

\* C22 witness: a waiter polls holding the lock while the refreshing thread
\* stands at line 94 and needs that lock to clear the marker
C22_WaiterHoldsLockRefresherNeedsIt ==
    \E t \in Threads : \E u \in Threads \ {t} :
        /\ pc[t] \in {"L45", "L47"} /\ lock = t
        /\ pc[u] = "L94" /\ active = <<u>>
        /\ Blocked(u)


\* thread t holds the cache lock over its step (the with-block of lines
\* 93-95 is one step: the lock is taken, the marker popped, the lock released)
UnderLock(t) == lock = t \/ (pc[t] = "L94" /\ lock = 0)

\* C23: every step that writes the snapshot, its timestamp or the in-flight
\* marker is taken by a thread that holds the cache lock
C23_WritesUnderLock ==
    [][ \A t \in Threads :
          (Moves(t) /\ (cache' # cache \/ stamp' # stamp \/ active' # active))
              => UnderLock(t) ]_vars


\* the aggregate names a bucket's configuration lists in its four pools
ConfiguredAggregates(config) ==
    { config.ondemand_variants[i].aggregate : i \in 1..Len(config.ondemand_variants) }
    \cup { config.contracts[i].aggregate : i \in 1..Len(config.contracts) }
    \cup ({config.spot, config.runpod} \ {NoneVal})

\* the buckets of snap that own aggregate B
OwnersOf(snap, B) ==
    { k \in 1..Len(snap.buckets) : B \in ConfiguredAggregates(snap.buckets[k].config) }

\* the positions of the records of host h in snap
RecordsOfHost(snap, h) == { x \in Positions(snap) : RecordAt(snap, x).hostname = h }

\* C24: on every cached snapshot, for every host H recorded under aggregate A
\* and every aggregate B that some bucket owns, the migration patch returns
\* true and leaves exactly one record of H, in the bucket owning B, with
\* aggregate B -- also when no host is recorded under B
C24_MigrationToOwnedAggregate ==
    cache # <<>> =>
        \A H \in Hosts : \A A \in MigNames : \A B \in MigNames \ {A} :
            LET snap == cache[1].data
            IN  (RecordsWith(snap, H, A) >= 1 /\ OwnersOf(snap, B) # {}) =>
                    LET r == update_host_aggregate_in_cache(snap, H, A, B)
                    IN  /\ r.ret
                        /\ Cardinality(RecordsOfHost(r.data, H)) = 1
                        /\ \A x \in RecordsOfHost(r.data, H) :
                              /\ x[1] \in OwnersOf(r.data, B)
                              /\ RecordAt(r.data, x).aggregate = B


\* the entries (resource-type buckets and the out-of-stock entry) of snap
\* that hold a record of host h
EntriesOfHost(snap, h) == { x[1] : x \in RecordsOfHost(snap, h) }

\* the aggregate names of the backends that match neither naming rule
UnmatchedAggregates ==
    { i \in 1..Len(world.aggs) :
        /\ Pattern1Matches(Chars(world.aggs[i].name)) = {}
        /\ ~ContractMatches(Chars(world.aggs[i].name)) }

\* C25: in the snapshot a refresh returns, every host of an aggregate whose
\* name matches no naming rule appears in exactly one bucket
C25_UnmatchedHostsKept ==
    JustOrganized =>
        \A i \in UnmatchedAggregates : \A j \in 1..Len(world.aggs[i].hosts) :
            Cardinality(EntriesOfHost(ret[1].snap[1], world.aggs[i].hosts[j])) = 1


(***************************************************************************)
(* One caller forcing a refresh while one page request of the device       *)
(* directory may fail: the scenario's five devices make three pages.       *)
(***************************************************************************)
DirectoryWorlds ==
    { [ScenarioWorld(<<"H100-n3", "H100-n3-spot", "H100-n3-tempest">>, {}, {})
          EXCEPT !.failing_page = p] : p \in 0..((5 \div PageLimit) + 1) }

InitDirectory == world \in DirectoryWorlds /\ InitCache

NextDirectory == \E F \in SUBSET Sources : P_Force(F)

SpecDirectory == InitDirectory /\ [][NextDirectory]_vars

\* snap carries nothing of the device directory: no out-of-stock device and
\* only default tenant data
NoDirectoryData(snap) ==
    /\ snap.outofstock.hosts = <<>>
    /\ \A x \in Positions(snap) : RecordAt(snap, x).tenant_info = DefaultTenantInfo

\* C26: when a page request after the first fails, the snapshot of the
\* refresh carries no directory data, as when the directory source fails
C26_PartialDirectoryIsEmpty ==
    (JustForced /\ world.failing_page >= 2) => NoDirectoryData(ret[1].snap[1])


\* C27: the step of line 87 leaves in the cache exactly the output of the
\* publishing thread's pipeline execution, organize_parallel_results of what
\* its agents collected: nothing that a patch wrote before remains
C27_PublicationReplacesPatches ==
    [][ \A t \in Threads :
          (pc[t] = "L87" /\ pc'[t] = "L88") =>
              /\ cache' # <<>>
              /\ cache'[1].data = organize_parallel_results(CollectAll(world, local[t].failed)) ]_vars

\* C27 witness: a thread has just published at line 87 over a snapshot in
\* which another thread had patched the vm count of a host to 1; the cached
\* snapshot shows the count the backends report, 0
C27_PublishedOverPatch ==
    \E t \in Threads : \E u \in Threads \ {t} :
        /\ pc[t] = "L88" /\ cache = local[t].ref
        /\ calls = 3
        /\ patched[u] # <<>> /\ patched[u][1].n = 1 /\ ~patched[u][1].intact
        /\ VmCountsOf(cache[1].data, patched[u][1].hostname) = {0}


(***************************************************************************)
(* get_gpu_type_from_hostname_fast of modules/aggregate_operations.py,     *)
(* applied once to each hostname built from a site prefix, a hardware      *)
(* token in lower or upper case, and a node suffix.  A hostname is the     *)
(* sequence of its characters.                                             *)
(***************************************************************************)
Upper(cs) ==
    [ i \in 1..Len(cs) |->
        IF \E k \in 1..26 : LowerLetters[k] = cs[i]
        THEN UpperLetters[CHOOSE k \in 1..26 : LowerLetters[k] = cs[i]]
        ELSE cs[i] ]

\* the branches of lines 418-441 in order: the substrings tested, the type returned
HostnamePatterns ==
    << [subs |-> { <<"h","2","0","0","s","x","m">>, <<"h","2","0","0","-","s","x","m">> }, gpu_type |-> "H200-SXM5"],
       [subs |-> { <<"h","1","0","0","s","x","m">>, <<"h","1","0","0","-","s","x","m">> }, gpu_type |-> "H100-SXM5"],
       [subs |-> { <<"h","1","0","0">> }, gpu_type |-> "H100"],
       [subs |-> { <<"a","1","0","0">> }, gpu_type |-> "A100"],
       [subs |-> { <<"r","t","x","-","a","6","0","0","0">>, <<"r","t","x","_","a","6","0","0","0">> }, gpu_type |-> "RTX-A6000"],
       [subs |-> { <<"r","t","x","6","0","0","0","p","r","o">>, <<"r","t","x","-","6","0","0","0","-","p","r","o">> }, gpu_type |-> "RTX-PRO6000-SE"],
       [subs |-> { <<"l","4","0">> }, gpu_type |-> "L40"],
       [subs |-> { <<"a","4","0","0","0">> }, gpu_type |-> "A4000"] >>

\* the branches whose test holds of hostname_lower
MatchingBranches(hostname_lower) ==
    { k \in 1..Len(HostnamePatterns) :
        \E p \in HostnamePatterns[k].subs : Contains(hostname_lower, p) }

get_gpu_type_from_hostname_fast(hostname) ==
    LET hostname_lower == Lower(hostname)
        hits == MatchingBranches(hostname_lower)
    IN  IF hits = {} THEN NoneVal
        ELSE HostnamePatterns[CHOOSE k \in hits : \A j \in hits : k <= j].gpu_type

SitePrefixes == { <<>>, <<"C","A","1","-">> }
NodeSuffixes ==
    { <<"-","1">>, <<"-","n","o","d","e","0","1">>, <<"-","s","e","r","v","e","r","1">>,
      <<"-","g","p","u","1">>, <<"-","n","o","d","e","1">>, <<"-","h","o","s","t","n","a","m","e">> }
HardwareWords ==
    UNION { HostnamePatterns[k].subs : k \in 1..Len(HostnamePatterns) }
    \cup { <<"e","s","c","8">>, <<"u","n","k","n","o","w","n">> }

HostnameInputs ==
    { p \o m \o s : p \in SitePrefixes,
                    m \in HardwareWords \cup { Upper(w) : w \in HardwareWords },
                    s \in NodeSuffixes }

LookupOp == [IdleOp EXCEPT !.name = "get_gpu_type_from_hostname_fast"]

H_Lookup ==
    /\ calls < 1
    /\ calls' = calls + 1
    /\ ret' = [ret EXCEPT ![1] = [op |-> LookupOp, kind |-> "gpu_type", at |-> "L441",
                                  flag |-> FALSE, count |-> 0,
                                  snap |-> <<get_gpu_type_from_hostname_fast(world.hostname)>>,
                                  failed |-> {}]]
    /\ UNCHANGED <<world, cache, stamp, active, lock, now, pc, op, poll, local,
                   published, timedOut, patched, atCall>>

InitHostname == world \in { [hostname |-> h] : h \in HostnameInputs } /\ InitCache

NextHostname == H_Lookup

SpecHostname == InitHostname /\ [][NextHostname]_vars

\* test_cases of test_hostname_pattern_matching: hostname, expected
HostnameTestTable ==
    { << <<"C","A","1","-","e","s","c","8","-","1">>, "RTX-A6000" >>,
      << <<"C","A","1","-","h","1","0","0","-","n","o","d","e","0","1">>, "H100" >>,
      << <<"C","A","1","-","a","1","0","0","-","s","e","r","v","e","r","1">>, "A100" >>,
      << <<"C","A","1","-","l","4","0","-","g","p","u","1">>, "L40" >>,
      << <<"C","A","1","-","h","1","0","0","s","x","m","-","n","o","d","e","1">>, "H100-SXM5" >>,
      << <<"u","n","k","n","o","w","n","-","h","o","s","t","n","a","m","e">>, NoneVal >> }

\* C28: the type returned for a hostname is the one returned for the
\* hostname in lower case; a name containing 'h100sxm' yields H100-SXM5; the
\* hostnames of the test table yield the types the table expects; a hostname
\* outside the table that contains none of the patterns yields None
C28_HostnameLookup ==
    ret[1].op = LookupOp =>
        LET hostname == world.hostname
            result == ret[1].snap[1]
        IN  /\ result = get_gpu_type_from_hostname_fast(Lower(hostname))
            /\ Contains(Lower(hostname), <<"h","1","0","0","s","x","m">>) => result = "H100-SXM5"
            /\ \A c \in HostnameTestTable : hostname = c[1] => result = c[2]
            /\ ( /\ MatchingBranches(Lower(hostname)) = {}
                 /\ \A c \in HostnameTestTable : hostname # c[1] ) => result = NoneVal


(***************************************************************************)
(* classify_aggregates_by_gpu_type applied once to each dict of one or two *)
(* aggregates, given by its keys in insertion order.                       *)
(***************************************************************************)
ClassifierNames ==
    { "H100-n3", "H100-n3-spot", "H100-n3-NVLink-spot", "H100-n3-NVLink", "A100-n3-runpod",
      "Contract-8xA100", "contract-acme", "Contract-4xB200", "Contract-A100-H100",
      "Contract-8xB200-L40", "tempest", "H100-n3-tempest", "GPU-X", "misc" }

ClassifierInputs ==
    { <<a>> : a \in ClassifierNames }
    \cup UNION { { <<a, b>> : b \in ClassifierNames \ {a} } : a \in ClassifierNames }

ClassifyOp == [IdleOp EXCEPT !.name = "classify_aggregates_by_gpu_type"]

K_Classify ==
    /\ calls < 1
    /\ calls' = calls + 1
    /\ ret' = [ret EXCEPT ![1] = [op |-> ClassifyOp, kind |-> "gpu_aggregates", at |-> "L854",
                                  flag |-> FALSE, count |-> 0,
                                  snap |-> <<classify_aggregates_by_gpu_type(world.aggregates_dict)>>,
                                  failed |-> {}]]
    /\ UNCHANGED <<world, cache, stamp, active, lock, now, pc, op, poll, local,
                   published, timedOut, patched, atCall>>

InitClassify == world \in { [aggregates_dict |-> names] : names \in ClassifierInputs } /\ InitCache

NextClassify == K_Classify

SpecClassify == InitClassify /\ [][NextClassify]_vars

\* the (resource type, pool) pairs under which gpu_aggregates lists name
PairsOf(g, name) ==
    UNION { { <<g[i].gpu_type, "ondemand">> :
                k \in { k \in 1..Len(g[i].config.ondemand_variants) :
                          g[i].config.ondemand_variants[k].aggregate = name } }
            \cup { <<g[i].gpu_type, "contract">> :
                k \in { k \in 1..Len(g[i].config.contracts) :
                          g[i].config.contracts[k].aggregate = name } }
            \cup (IF g[i].config.spot = name THEN { <<g[i].gpu_type, "spot">> } ELSE {})
            \cup (IF g[i].config.runpod = name THEN { <<g[i].gpu_type, "runpod">> } ELSE {})
          : i \in 1..Len(g) }

\* how often gpu_aggregates lists name
Listings(g, name) ==
    LET count(i) ==
          Cardinality({ k \in 1..Len(g[i].config.ondemand_variants) :
                          g[i].config.ondemand_variants[k].aggregate = name })
          + Cardinality({ k \in 1..Len(g[i].config.contracts) :
                          g[i].config.contracts[k].aggregate = name })
          + (IF g[i].config.spot = name THEN 1 ELSE 0)
          + (IF g[i].config.runpod = name THEN 1 ELSE 0)
        sum[i \in 0..Len(g)] == IF i = 0 THEN 0 ELSE sum[i - 1] + count(i)
    IN  sum[Len(g)]

\* the name is TYPE-n3[-NVLink][-spot|-runpod] with TYPE of [A-Z0-9-]+
IsCanonical(cs) == Pattern1Matches(cs) # {}

\* the pool the suffix of a canonical name stands for
PoolOfSuffix(cs) ==
    IF EndsWith(cs, Chars("-spot")) THEN "spot"
    ELSE IF EndsWith(cs, Chars("-runpod")) THEN "runpod"
    ELSE "ondemand"

\* the resource type of a contract name: the first of H100, A100, RTX-A6000,
\* L40, A4000 that occurs in it, else what follows <digits>x, else A100
ContractTypeOf(cs) ==
    IF Contains(cs, Chars("H100")) THEN "H100"
    ELSE IF Contains(cs, Chars("A100")) THEN "A100"
    ELSE IF Contains(cs, Chars("RTX-A6000")) THEN "RTX-A6000"
    ELSE IF Contains(cs, Chars("L40")) THEN "L40"
    ELSE IF Contains(cs, Chars("A4000")) THEN "A4000"
    ELSE IF TimesStarts(cs) # {} THEN StrOf(TimesGroup1(cs))
    ELSE "A100"

\* the pairs the naming rules give a name
RulePairs(name) ==
    LET cs == Chars(name)
    IN  (IF IsCanonical(cs) THEN { <<StrOf(Pattern1Group1(cs)), PoolOfSuffix(cs)>> } ELSE {})
        \cup (IF ContractMatches(cs) THEN { <<ContractTypeOf(cs), "contract">> } ELSE {})

Classified == ret[1].op = ClassifyOp

\* C29: no name matches both the canonical and the contract rule; after a
\* classification every name is listed under at most one (type, pool) pair,
\* once, and only under the pair its rule gives it: the spot, runpod or
\* ondemand pool of TYPE for a canonical name, the contract pool for a
\* contract name, none for any other name; the name classified last is
\* listed under its pair.
C29_AtMostOnePair ==
    Classified =>
        LET names == world.aggregates_dict
            g == ret[1].snap[1]
        IN  \A i \in 1..Len(names) :
               /\ ~(IsCanonical(Chars(names[i])) /\ ContractMatches(Chars(names[i])))
               /\ Cardinality(PairsOf(g, names[i])) <= 1
               /\ PairsOf(g, names[i]) \subseteq RulePairs(names[i])
               /\ Listings(g, names[i]) <= 1
               /\ i = Len(names) => PairsOf(g, names[i]) = RulePairs(names[i])

\* C29 witness: a spot name and a runpod name were classified, each listed
\* under the pool of its suffix and of its own type
C29_SpotAndRunpodClassified ==
    /\ Classified
    /\ world.aggregates_dict = <<"H100-n3-NVLink-spot", "A100-n3-runpod">>
    /\ PairsOf(ret[1].snap[1], "H100-n3-NVLink-spot") = { <<"H100", "spot">> }
    /\ PairsOf(ret[1].snap[1], "A100-n3-runpod") = { <<"A100", "runpod">> }

ValidationAtReturn ==
    validate_inventory_accountability(ret[1].snap[1],
                                      netbox_agent(world, ret[1].failed).all_devices)

\* the GPU-tagged devices of the listing the directory agent gave the refresh
ListedGpuDevices == IF "netbox" \in ret[1].failed THEN 0 ELSE Cardinality(GpuDevices)

\* the host records of the resource-type buckets of snap, counted bucket by bucket
RECURSIVE BucketHostCount(_)
BucketHostCount(buckets) ==
    IF buckets = <<>> THEN 0 ELSE Len(Head(buckets).hosts) + BucketHostCount(Tail(buckets))

C32_MarkerWhileExecuting ==
    (\E t \in Threads : Executing(t)) => active # <<>>


\* C33: no call of get_all_data_parallel, update_host_vm_count_in_cache or
\* update_host_aggregate_in_cache ends with a KeyError
C33_NoKeyError ==
    \A t \in Threads :
        ret[t].op.name \in {"get", "patch_vm", "patch_mig"} => ret[t].kind # "KeyError"


(***************************************************************************)
(* A pipeline execution that fails: an exception raised inside the try of  *)
(* lines 56-90 before line 87 (by organize_parallel_results, say) runs the *)
(* finally block of lines 91-95 and leaves get_all_data_parallel.          *)
(***************************************************************************)
\* lines 57-84 raising: control goes to the finally block, exception pending
get_L84_raises(t) ==
    /\ pc[t] = "L61"
    /\ Goto(t, "L93")
    /\ UNCHANGED <<world, cache, stamp, active, lock, now, op, poll, local, ret, calls,
                   published, timedOut, patched, atCall>>

\* get_L93 dropping the cached snapshot and its timestamp with the marker
get_L93_DropsCache(t) ==
    /\ pc[t] = "L93"
    /\ lock = 0
    /\ active' = <<>>
    /\ cache' = <<>>
    /\ stamp' = <<>>
    /\ Return(t, "Exception", "L84", FALSE, 0, <<>>, {})
    /\ DropFrame(t)
    /\ atCall' = [atCall EXCEPT ![t] = NotHeld]
    /\ UNCHANGED <<world, lock, now, calls, published, timedOut, patched>>

\* lines 93-95 with the exception pending: with _cache_lock: pop; re-raise
get_L93(t) ==
    /\ pc[t] = "L93"
    /\ lock = 0
    /\ active' = <<>>
    /\ Return(t, "Exception", "L84", FALSE, 0, <<>>, {})
    /\ DropFrame(t)
    /\ atCall' = [atCall EXCEPT ![t] = NotHeld]
    /\ UNCHANGED <<world, cache, stamp, lock, now, calls, published, timedOut, patched>>

FailStep(t) ==
    \/ \E o \in LiveOps : Call(t, o)
    \/ get_L61(t)
    \/ get_L84_raises(t)
    \/ get_L93(t)
    \/ Proceed(t)

NextFail == Tick \/ \E t \in Threads : FailStep(t)

SpecFail == Init /\ [][NextFail]_vars

\* C34: when the pipeline of a thread raises, snapshot, timestamp and marker
\* stay as they are until its finally block, which removes the marker and
\* changes neither snapshot nor timestamp; the call of that thread, and of
\* no other, ends with the exception
C34_FailedExecution ==
    [][ \A t \in Threads :
          /\ (pc[t] = "L61" /\ pc'[t] = "L93") =>
                cache' = cache /\ stamp' = stamp /\ active' = active
          /\ (pc[t] = "L93" /\ pc'[t] # "L93") =>
                /\ active' = <<>>
                /\ cache' = cache /\ stamp' = stamp
                /\ pc'[t] = "idle" /\ ret'[t].kind = "Exception"
                /\ \A u \in Threads \ {t} : ret'[u] = ret[u] /\ pc'[u] = pc[u]
          /\ (ret'[t] # ret[t] /\ ret'[t].kind = "Exception") => pc[t] = "L93" ]_vars

\* C34 witness: a Get ended with the exception of its pipeline while a
\* snapshot published earlier, now stale, is still cached with its
\* timestamp, and the marker is gone
C34_FailedOverStaleSnapshot ==
    \E t \in Threads :
        /\ pc[t] = "idle" /\ ret[t].kind = "Exception" /\ ret[t].op.name = "get"
        /\ cache # <<>> /\ stamp # <<>> /\ now - stamp[1] >= 600
        /\ active = <<>>
        /\ \A u \in Threads \ {t} : pc[u] = "idle" /\ ret[u].kind # "Exception"


(***************************************************************************)
(* The backends change.  The routes clear the cache after an operation     *)
(* that changed the backends and then read (force_cache_refresh;           *)
(* app_routes.py lines 828-835 and 1727-1733): here the vm count of h1     *)
(* goes from 0 to 1 at some time before the first force_cache_refresh is   *)
(* called, while plain reads may be under way.  Thread 1 is the reader,    *)
(* the other threads run force_cache_refresh.                              *)
(***************************************************************************)
W_Change ==
    /\ world.vms["h1"] = 0
    /\ \A t \in Threads : op[t].name # "force" /\ ret[t].op.name # "force"
    /\ world' = [world EXCEPT !.vms["h1"] = 1]
    /\ UNCHANGED <<cache, stamp, active, lock, now, pc, op, poll, local, ret, calls,
                   published, timedOut, patched, atCall>>

ChangeStep(t) ==
    \/ Call(t, IF t = 1 THEN GetOp ELSE ForceOp)
    \/ get_L61(t)
    \/ Proceed(t)

NextChange == Tick \/ W_Change \/ \E t \in Threads : ChangeStep(t)

SpecChange == Init /\ [][NextChange]_vars

\* C35: the snapshot a force_cache_refresh returns was collected after its
\* clear_parallel_cache: it shows for h1 the vm count the backends have had
\* since before the call (or, when the agents failed, no count at all)
C35_GetAfterClearIsPostClear ==
    \A t \in Threads :
        (ret[t].op.name = "force" /\ ret[t].kind = "snapshot")
            => VmCountsOf(ret[t].snap[1], "h1") \subseteq {world.vms["h1"]}


(***************************************************************************)
(* A VM is launched on h1 and the route then patches the cached count of   *)
(* h1 to 1 (app_routes.py lines 1150-1152), while plain reads may be under *)
(* way.  Thread 1 is the reader, the other threads patch and read.         *)
(***************************************************************************)
W_Launch ==
    /\ world.vms["h1"] = 0
    /\ world' = [world EXCEPT !.vms["h1"] = 1]
    /\ UNCHANGED <<cache, stamp, active, lock, now, pc, op, poll, local, ret, calls,
                   published, timedOut, patched, atCall>>

LaunchStep(t) ==
    \/ Call(t, GetOp)
    \/ t # 1 /\ world.vms["h1"] = 1 /\ Call(t, PatchVmOp("h1", 1))
    \/ get_L25(t) \/ get_L26(t) \/ get_L29(t) \/ get_L32(t) \/ get_L34(t) \/ get_L35(t)
    \/ get_L38(t) \/ get_L41(t) \/ get_L45(t) \/ get_L47(t) \/ get_L50(t)
    \/ get_L51(t) \/ get_L61(t) \/ get_L87(t) \/ get_L88(t) \/ get_L94(t)
    \/ patch_lock(t) \/ patch_check(t) \/ patch_read(t) \/ patch_vm_L974(t)

NextLaunch == Tick \/ W_Launch \/ \E t \in Threads : LaunchStep(t)

SpecLaunch == Init /\ [][NextLaunch]_vars

\* C36: while the cache holds the snapshot into which a successful patch,
\* made after the launch, wrote the vm count 1 of h1, no step leaves in the
\* cache a snapshot with an older count for h1: no refresh that collected
\* before the patch replaces the patched snapshot
C36_PatchSurvivesInFlightRefresh ==
    [][ \A t \in Threads :
          (patched[t] # <<>> /\ patched[t][1].intact /\ cache' # <<>>)
              => VmCountsOf(cache'[1].data, "h1") \subseteq {1} ]_vars


\* C37: publications follow the order of collection: once the cache holds a
\* snapshot collected after the change of the backends (vm count 1 for h1),
\* no step leaves in it a snapshot collected before the change (vm count 0),
\* also when two executions overlap after the give-up of line 51
C37_PublicationsMonotonic ==
    [][ ( /\ cache # <<>> /\ cache' # <<>>
          /\ 1 \in VmCountsOf(cache[1].data, "h1") )
        => 0 \notin VmCountsOf(cache'[1].data, "h1") ]_vars


\* every entry's recorded count is the length of its host list
CountsAgree(snap) ==
    /\ \A i \in 1..Len(snap.buckets) : snap.buckets[i].total_hosts = Len(snap.buckets[i].hosts)
    /\ snap.outofstock.device_count = Len(snap.outofstock.hosts)

\* the number of host records of all entries
RecordTotal(snap) == BucketHostCount(snap.buckets) + Len(snap.outofstock.hosts)

\* a call of a patcher on a cached snapshot
PatchCall ==
    /\ cache # <<>>
    /\ calls' = calls + 1
    /\ ret'[1].op.name \in {"patch_vm", "patch_mig"}

\* C38: a patch call, successful or not, on a snapshot whose recorded counts
\* are the lengths of the host lists leaves them so and leaves the number of
\* host records as it was
C38_PatchesKeepCounts ==
    [][ (PatchCall /\ CountsAgree(cache[1].data))
        => /\ CountsAgree(cache'[1].data)
           /\ RecordTotal(cache'[1].data) = RecordTotal(cache[1].data) ]_vars


PatchLines == {"L965", "L966", "L970", "L974", "L997", "L998", "L1002", "L1006"}

\* the timestamp says the cached snapshot is as old as the TTL or older
StampStale == stamp # <<>> /\ now - stamp[1] >= PARALLEL_CACHE_TTL

\* C39: no step of a patcher changes the timestamp or the in-flight marker,
\* and none leads into get_all_data_parallel; a get_all_data_parallel that
\* reads a timestamp as old as the TTL or older at line 26, 35 or 47 does not
\* take the cached snapshot, whatever was patched into it; and lines 974-988
\* on a cached snapshot with such a timestamp still write the count of a host
\* it holds and return True
C39_PatchNeverExtendsFreshness ==
    [][ \A t \in Threads :
          /\ (pc[t] \in PatchLines /\ Moves(t))
                => /\ stamp' = stamp /\ active' = active
                   /\ pc'[t] \in PatchLines \cup {"idle"}
          /\ (StampStale /\ Moves(t))
                => /\ pc[t] = "L26" => pc'[t] # "L29"
                   /\ pc[t] = "L35" => pc'[t] # "L38"
                   /\ pc[t] = "L47" => pc'[t] # "L50"
          /\ ( /\ pc[t] = "L974" /\ Moves(t) /\ StampStale
               /\ cache # <<>> /\ local[t].ref[1].id = cache[1].id
               /\ VmCountsOf(cache[1].data, op[t].hostname) # {} )
                => /\ ret'[t].flag
                   /\ op[t].n \in VmCountsOf(cache'[1].data, op[t].hostname) ]_vars

\* C39 witness: a patch has just written the vm count 1 into a cached
\* snapshot whose timestamp is as old as the TTL and returned True; the
\* timestamp is as it was and no marker is set
C39_PatchedStaleSnapshot ==
    \E t \in Threads :
        /\ pc[t] = "idle" /\ ret[t].op.name = "patch_vm" /\ ret[t].flag
        /\ patched[t] # <<>> /\ patched[t][1].intact /\ patched[t][1].n = 1
        /\ StampStale /\ active = <<>>
        /\ cache # <<>> /\ VmCountsOf(cache[1].data, patched[t][1].hostname) = {1}


\* get_parallel_cache_stats, lines 948-956, called at the present state: the
\* number of cached datasets, the TTL, and the least age over the timestamps
\* (0 when there is none)
get_parallel_cache_stats ==
    [cached_datasets |-> Len(cache),
     cache_ttl_seconds |-> PARALLEL_CACHE_TTL,
     oldest_entry_age |-> IF stamp # <<>> THEN now - stamp[1] ELSE 0]

\* C40: when no call is under way, the snapshot is cached exactly if its
\* timestamp is, at most one snapshot is cached, and get_parallel_cache_stats
\* reports 0 or 1 datasets and, when no snapshot is cached, the age 0
C40_CacheAndStampTogether ==
    (\A t \in Threads : pc[t] = "idle")
        => /\ (cache # <<>>) <=> (stamp # <<>>)
           /\ Len(cache) <= 1
           /\ get_parallel_cache_stats.cached_datasets \in {0, 1}
           /\ cache = <<>> => get_parallel_cache_stats.oldest_entry_age = 0

=============================================================================
